---- MODULE Spec2Model ----
(***************************************************************************)
(* A model of yt-dlp-ng: the extractor registry (core/extractor.rs), the   *)
(* YouTube page extractor and its signature decrypter (extractors/*.rs)    *)
(* and the resumable, retrying downloader (core/downloader.rs).            *)
(*                                                                         *)
(* Conventions.  An Option<T> is a sequence of length at most one: None is *)
(* <<>> and Some(x) is <<x>>.  A Result is a record with a tag "Ok" or     *)
(* "Err".  A String that the code takes apart character by character is a  *)
(* sequence of one-character strings; other strings are TLA+ strings.      *)
(* Rust indices are 0-based, TLA+ sequences 1-based: index i of the code   *)
(* is position i + 1 of the model.                                         *)
(***************************************************************************)
EXTENDS Integers, Sequences, FiniteSets, TLC

VARIABLES
    \* Downloader::select_best_format
    formats,        \* the &[VideoFormat] handed to select_best_format
    best,           \* its Result: the index of the returned reference, or Err
    \* SignatureDecrypter::decrypt_signature, pattern-based path
    signature,      \* the `signature` argument, as characters
    operations,     \* the Vec<TransformOp> of extract_signature_operations
    sig_chars,      \* the local `sig_chars`
    op_done,        \* how many operations the `for op in operations` loop has run
    sig_pc,         \* "idle" | "loop" | "done"
    \* ExtractorEngine
    extractors,     \* ExtractorEngine::extractors, in registration order
    reg_url,        \* the `url` argument of the last ExtractorEngine::extract
    reg_calls,      \* the trait methods that call invoked, in order
    reg_result,     \* what that call returned
    \* Downloader::download, download_format and perform_download
    total,          \* size T of the remote resource; its bytes are 1..T
    file,           \* the target file: None if the path does not exist, else its bytes
    file0,          \* the target file when download was called
    pending,        \* the write the open tokio::fs::File has in flight, if any: the
                    \* bytes write_all took and where they go (`at`: the offset,
                    \* or None for the end of the file in append mode)
    stale,          \* in-flight writes of files that earlier calls dropped
    stale0,         \* `stale` when download was called
    resume_from,    \* the local `resume_from`
    attempt,        \* the local `attempt`
    requests,       \* the Range header (an Option) of every request sent
    responses,      \* what each request met: an HTTP status, or NetErr
    waits,          \* the seconds of every tokio::time::sleep
    body,           \* what is left of the response's bytes_stream
    downloaded,     \* the local `downloaded` of perform_download
    expected_total, \* the local `expected_total` of perform_download
    dl_pc,          \* "idle" | "send" | "open" | "stream" | "done"
    dl_result,      \* what download returned
    \* YouTubeExtractor and its SignatureDecrypter
    js_interpreter, \* signature_decrypter.js_interpreter: the script it holds, if any
    transform_cache,\* signature_decrypter.transform_cache: fingerprint -> operations
    yt_pc,          \* "idle" | "page" | "js" (inside extract_player_js) | "done"
    yt_video_id,    \* the local `video_id`
    yt_html,        \* the local `html`
    yt_pattern,     \* the pattern of extract_player_js the loop is at
    yt_events,      \* the fetches and decryptions of the current call, in order
    yt_result,      \* what extract returned
    yt_js,          \* the local `js_content`, once extract_player_js returned it
    js_interpreter0,\* signature_decrypter.js_interpreter when extract was called
    \* utils: sanitize_filename and generate_output_filename
    sanitize_input, \* the `filename` argument of sanitize_filename, as characters
    sanitize_output,\* what it returned, if it was called
    metadata,       \* the id, title and uploader of the VideoMetadata handed to
                    \* generate_output_filename (its formats are `formats`)
    template,       \* the `template` argument, as characters
    filename,       \* the PathBuf it returned, as characters, if it was called
    \* SignatureDecrypter::decrypt_nsig called on its own
    nsig_interp,    \* self.js_interpreter of the decrypter it is called on
    nsig_token,     \* the `nsig` argument, as characters
    nsig_js,        \* the `js_content` argument
    nsig_result,    \* what it returned
    \* main.rs: tracing_subscriber::fmt::init()
    debug,          \* whether the process's tracing subscriber takes DEBUG
                    \* events (RUST_LOG): the arguments of a tracing::debug!
                    \* are evaluated only then
    \* the standard output of the process
    stdout_gone     \* whether a write to stdout has found it a pipe whose
                    \* reader is gone: every later write finds the same

selVars == <<formats, best>>
sigVars == <<signature, operations, sig_chars, op_done, sig_pc>>
regVars == <<extractors, reg_url, reg_calls, reg_result>>
dlVars == <<total, file, file0, pending, stale, stale0, resume_from, attempt, requests,
            responses, waits, body, downloaded, expected_total, dl_pc, dl_result>>
ytVars == <<js_interpreter, transform_cache, yt_pc, yt_video_id, yt_html,
            yt_pattern, yt_events, yt_result, yt_js, js_interpreter0>>
utilVars == <<sanitize_input, sanitize_output, metadata, template, filename>>
nsigVars == <<nsig_interp, nsig_token, nsig_js, nsig_result>>
vars == <<selVars, sigVars, regVars, dlVars, ytVars, utilVars, nsigVars, debug, stdout_gone>>

None == <<>>
Some(x) == <<x>>
IsSome(o) == o # <<>>
Unwrap(o) == o[1]

(***************************************************************************)
(* Bounds of the model.                                                    *)
(***************************************************************************)
MaxFormats == 2      \* longest format list handed to select_best_format
MaxSigLen == 3       \* longest generated signature (besides the fixture)
MaxOps == 2          \* longest generated operation sequence (besides the fixtures)
MaxIndex == 3        \* largest generated Splice / Swap index
MaxExtractors == 2   \* most extractors registered with one engine
MaxTotal == 2        \* largest remote resource, in bytes
MaxChunk == 2        \* largest chunk the body stream yields, in bytes
MaxAdaptive == 1     \* most entries of streamingData.adaptiveFormats
MaxStale == 1        \* in-flight writes left behind by earlier download calls
MaxNameLen == 2

(***************************************************************************)
(* core/metadata.rs: VideoFormat, restricted to the fields the downloader  *)
(* reads.  tbr is an Option<f64>; the model writes a bitrate in halves, so *)
(* tbr = <<1001>> is Some(500.5) and tbr = <<1000>> is Some(500.0).        *)
(***************************************************************************)
VideoFormat ==
    [ vcodec : {None, Some("h264")},
      acodec : {None, Some("aac")},
      ext    : {"mp4", "webm", "m4a"},
      tbr    : {None} \cup {Some(h) : h \in {1, 1000, 1001}} ]

RECURSIVE SeqsUpTo(_, _)
SeqsUpTo(S, n) ==
    IF n = 0 THEN {<<>>}
    ELSE LET shorter == SeqsUpTo(S, n - 1)
         IN  shorter \cup {Append(s, x) : s \in {t \in shorter : Len(t) = n - 1}, x \in S}

\* `f.tbr.unwrap_or(0.0) as i32`: the cast drops the fraction (the model's
\* bitrates are non-negative and far below i32::MAX, so it neither rounds up
\* nor saturates).
TbrAsI32(f) == IF IsSome(f.tbr) THEN Unwrap(f.tbr) \div 2 ELSE 0

\* the `match f.ext.as_str()` of the key closure
ContainerScore(ext) ==
    CASE ext = "mp4"  -> 1000
      [] ext = "webm" -> 500
      [] OTHER        -> 0

\* the key closure of max_by_key
SelectKey(f) == ContainerScore(f.ext) + TbrAsI32(f)

\* (a variant that asks for an audio codec only)
HasAudioCodec(f) == IsSome(f.acodec)
HasBothCodecs(f) == IsSome(f.vcodec) /\ IsSome(f.acodec)
\* the `.filter(..)` closure
SelectFilter(f) == HasBothCodecs(f)

\* Iterator::max_by_key folds the iterator from the left and keeps the later
\* element when two keys are equal: the last maximum wins.  acc is the index
\* kept so far (0 for none), i the next index to look at.
RECURSIVE MaxByKeyLast(_, _, _)
MaxByKeyLast(fs, i, acc) ==
    IF i > Len(fs) THEN acc
    ELSE IF ~SelectFilter(fs[i]) THEN MaxByKeyLast(fs, i + 1, acc)
    ELSE IF acc = 0 \/ SelectKey(fs[i]) >= SelectKey(fs[acc])
         THEN MaxByKeyLast(fs, i + 1, i)
         ELSE MaxByKeyLast(fs, i + 1, acc)

MaxByKey(fs, i, acc) == MaxByKeyLast(fs, i, acc)

Ok(v) == [tag |-> "Ok", val |-> v]
Err(m) == [tag |-> "Err", val |-> m]
NotCalled == [tag |-> "NotCalled", val |-> 0]

\* Downloader::select_best_format; Ok carries the index of the returned reference
select_best_format(fs) ==
    LET b == MaxByKey(fs, 1, 0)
    IN  IF b = 0 THEN Err("No suitable format found") ELSE Ok(b)

SelectBestFormat ==
    /\ best = NotCalled
    /\ best' = select_best_format(formats)
    /\ UNCHANGED <<debug, stdout_gone, formats, sigVars, regVars, dlVars, ytVars, utilVars, nsigVars>>

(***************************************************************************)
(* extractors/youtube_signature.rs: TransformOp and the loop of            *)
(* decrypt_signature that applies the operations to the characters.        *)
(***************************************************************************)
Reverse == [op |-> "Reverse", index |-> 0]
Splice(i) == [op |-> "Splice", index |-> i]
Swap(i) == [op |-> "Swap", index |-> i]

Rev(s) == [j \in 1..Len(s) |-> s[Len(s) + 1 - j]]
RemoveAt(s, i) == [j \in 1..(Len(s) - 1) |-> IF j <= i THEN s[j] ELSE s[j + 1]]
SwapAt(s, i) ==
    [j \in 1..Len(s) |-> IF j = 1 THEN s[i + 1] ELSE IF j = i + 1 THEN s[1] ELSE s[j]]

\* one iteration of `for op in operations { match op { .. } }`
\* (a variant that counts Splice indices from 1)
ApplyOpOneBased(op, chars) ==
    CASE op.op = "Reverse" -> Rev(chars)
      [] op.op = "Splice"  -> IF op.index >= 1 /\ op.index <= Len(chars)
                              THEN RemoveAt(chars, op.index - 1) ELSE chars
      [] op.op = "Swap"    -> IF op.index < Len(chars) THEN SwapAt(chars, op.index) ELSE chars
\* (a variant whose Splice guard is `index <= sig_chars.len()`)
ApplyOpInclusiveGuard(op, chars) ==
    CASE op.op = "Reverse" -> Rev(chars)
      [] op.op = "Splice"  -> IF op.index <= Len(chars) /\ chars # <<>>
                              THEN RemoveAt(chars, op.index) ELSE chars
      [] op.op = "Swap"    -> IF op.index < Len(chars) THEN SwapAt(chars, op.index) ELSE chars
ApplyOp(op, chars) ==
    CASE op.op = "Reverse" -> Rev(chars)
      [] op.op = "Splice"  -> IF op.index < Len(chars) THEN RemoveAt(chars, op.index) ELSE chars
      [] op.op = "Swap"    -> IF op.index < Len(chars) THEN SwapAt(chars, op.index) ELSE chars

RECURSIVE ApplyOps(_, _)
ApplyOps(ops, chars) ==
    IF ops = <<>> THEN chars ELSE ApplyOps(Tail(ops), ApplyOp(Head(ops), chars))

SigFixture == <<"a", "b", "c", "d", "e", "f">>
OpSet == {Reverse} \cup {Splice(i) : i \in 0..MaxIndex} \cup {Swap(i) : i \in 0..MaxIndex}
OpsFixture == <<Reverse, Splice(1), Swap(2)>>
SigInputs == SeqsUpTo({"a", "b", "c"}, MaxSigLen) \cup {SigFixture}
OpsInputs == SeqsUpTo(OpSet, MaxOps) \cup {OpsFixture, <<Reverse, Splice(1), Swap(39)>>}

\* `let mut sig_chars: Vec<char> = signature.chars().collect();`
SigCollect ==
    /\ sig_pc = "idle"
    /\ sig_chars' = signature
    /\ op_done' = 0
    /\ sig_pc' = "loop"
    /\ UNCHANGED <<debug, stdout_gone, signature, operations, selVars, regVars, dlVars, ytVars, utilVars, nsigVars>>

\* one iteration of the loop over `operations`
SigApplyOp ==
    /\ sig_pc = "loop"
    /\ op_done < Len(operations)
    /\ sig_chars' = ApplyOp(operations[op_done + 1], sig_chars)
    /\ op_done' = op_done + 1
    /\ UNCHANGED <<debug, stdout_gone, signature, operations, sig_pc, selVars, regVars, dlVars, ytVars, utilVars, nsigVars>>

\* `Ok(sig_chars.into_iter().collect())`
SigReturn ==
    /\ sig_pc = "loop"
    /\ op_done = Len(operations)
    /\ sig_pc' = "done"
    /\ UNCHANGED <<debug, stdout_gone, signature, operations, sig_chars, op_done, selVars, regVars, dlVars, ytVars, utilVars, nsigVars>>

(***************************************************************************)
(* core/extractor.rs: the Extractor trait and ExtractorEngine.  The url    *)
(* crate parses the argument; UrlTable gives, for the strings the model    *)
(* uses, what Url::parse, host_str, path_segments and query_pairs return.  *)
(***************************************************************************)
ParsedUrl(host, segs, query) == [host |-> host, segs |-> segs, query |-> query]
Urls ==
    { "https://www.youtube.com/watch?v=dQw4w9WgXcQ",
      "https://www.youtube.com/watch?t=123&v=dQw4w9WgXcQ",
      "https://www.youtube.com/watch",
      "https://m.youtube.com/watch?v=dQw4w9WgXcQ",
      "https://youtube.com/watch?v=dQw4w9WgXcQ",
      "https://youtu.be/dQw4w9WgXcQ",
      "https://youtu.be/",
      "https://notyoutube.com/watch?v=dQw4w9WgXcQ",
      "https://vimeo.com/123456",
      "mailto:someone@example.com",
      "not a url" }
UrlParse(url) ==
    CASE url = "https://www.youtube.com/watch?v=dQw4w9WgXcQ" ->
            Ok(ParsedUrl(Some("www.youtube.com"), Some(<<"watch">>), <<<<"v", "dQw4w9WgXcQ">>>>))
      [] url = "https://www.youtube.com/watch?t=123&v=dQw4w9WgXcQ" ->
            Ok(ParsedUrl(Some("www.youtube.com"), Some(<<"watch">>),
                         <<<<"t", "123">>, <<"v", "dQw4w9WgXcQ">>>>))
      [] url = "https://www.youtube.com/watch" ->
            Ok(ParsedUrl(Some("www.youtube.com"), Some(<<"watch">>), <<>>))
      [] url = "https://m.youtube.com/watch?v=dQw4w9WgXcQ" ->
            Ok(ParsedUrl(Some("m.youtube.com"), Some(<<"watch">>), <<<<"v", "dQw4w9WgXcQ">>>>))
      [] url = "https://youtube.com/watch?v=dQw4w9WgXcQ" ->
            Ok(ParsedUrl(Some("youtube.com"), Some(<<"watch">>), <<<<"v", "dQw4w9WgXcQ">>>>))
      [] url = "https://youtu.be/" ->
            Ok(ParsedUrl(Some("youtu.be"), Some(<<"">>), <<>>))
      [] url = "https://youtu.be/dQw4w9WgXcQ" ->
            Ok(ParsedUrl(Some("youtu.be"), Some(<<"dQw4w9WgXcQ">>), <<>>))
      [] url = "https://notyoutube.com/watch?v=dQw4w9WgXcQ" ->
            Ok(ParsedUrl(Some("notyoutube.com"), Some(<<"watch">>), <<<<"v", "dQw4w9WgXcQ">>>>))
      [] url = "https://vimeo.com/123456" ->
            Ok(ParsedUrl(Some("vimeo.com"), Some(<<"123456">>), <<>>))
      [] url = "mailto:someone@example.com" ->
            Ok(ParsedUrl(None, None, <<>>))
      [] OTHER -> Err("relative URL without a base")

\* `host.contains("youtube.com")` for the hosts of UrlTable
HostContainsYoutubeCom(host) ==
    host \in {"youtube.com", "www.youtube.com", "m.youtube.com", "notyoutube.com"}

\* YouTubeExtractor::suitable
YouTubeSuitable(u) ==
    IF IsSome(u.host)
    THEN HostContainsYoutubeCom(Unwrap(u.host)) \/ Unwrap(u.host) = "youtu.be"
    ELSE FALSE

\* Implementations of the Extractor trait: YouTubeExtractor, and two stand-ins
\* for other implementations, one for a single host and one for every URL.
ExtractorKinds == {"YouTube", "Vimeo", "Generic"}
Suitable(kind, u) ==
    CASE kind = "YouTube" -> YouTubeSuitable(u)
      [] kind = "Vimeo"   -> u.host = Some("vimeo.com")
      [] OTHER            -> TRUE

\* ExtractorEngine::register_extractor
RegisterExtractor(kind) ==
    /\ Len(extractors) < MaxExtractors
    /\ extractors' = Append(extractors, kind)
    /\ UNCHANGED <<debug, stdout_gone, reg_url, reg_calls, reg_result, selVars, sigVars, dlVars, ytVars, utilVars, nsigVars>>

\* The `for extractor in &mut self.extractors` loop from index i on: the calls
\* it makes, ending with the extract call of the first suitable extractor.
RECURSIVE DispatchCalls(_, _, _)
DispatchCalls(exts, u, i) ==
    IF i > Len(exts) THEN <<>>
    ELSE IF Suitable(exts[i], u)
         THEN <<<<"suitable", i>>, <<"extract", i>>>>
         ELSE <<<<"suitable", i>>>> \o DispatchCalls(exts, u, i + 1)

\* (a variant that keeps looking after a match and delegates to the last one)
RECURSIVE DispatchCallsLast(_, _, _)
DispatchCallsLast(exts, u, i) ==
    IF i > Len(exts) THEN <<>>
    ELSE LET rest == DispatchCallsLast(exts, u, i + 1)
         IN  IF Suitable(exts[i], u) /\ ~(\E k \in 1..Len(rest) : rest[k][1] = "extract")
             THEN <<<<"suitable", i>>>> \o rest \o <<<<"extract", i>>>>
             ELSE <<<<"suitable", i>>>> \o rest

Dispatch(exts, u, i) == DispatchCalls(exts, u, i)

Delegated(calls) == calls # <<>> /\ calls[Len(calls)][1] = "extract"

\* (a variant that treats an unparseable URL like one no extractor takes)
engine_extract_lenient(exts, url, outcome) ==
    LET parsed == UrlParse(url)
        calls == IF parsed.tag = "Err" THEN <<>> ELSE Dispatch(exts, parsed.val, 1)
    IN  [ calls |-> calls,
          result |-> IF Delegated(calls)
                     THEN [tag |-> outcome, val |-> "delegated", by |-> calls[Len(calls)][2]]
                     ELSE [tag |-> "Err", val |-> "No suitable extractor found", by |-> 0] ]

\* ExtractorEngine::extract: the trait calls it makes and what it returns.
\* What the chosen extractor's extract returns is its own business: `outcome`
\* is the tag of that Result, `by` the index of the extractor that produced it.
\* An extract that panics ("Panic") unwinds through the engine, which then
\* returns no Result either.
engine_extract(exts, url, outcome) ==
    LET parsed == UrlParse(url)
    IN  IF parsed.tag = "Err"
        THEN [ calls |-> <<>>,
               result |-> [tag |-> "Err", val |-> "InvalidUrl", by |-> 0] ]
        ELSE LET calls == Dispatch(exts, parsed.val, 1)
             IN  [ calls |-> calls,
                   result |-> IF Delegated(calls)
                              THEN [tag |-> outcome, val |-> "delegated",
                                    by |-> calls[Len(calls)][2]]
                              ELSE [tag |-> "Err", val |-> "No suitable extractor found",
                                    by |-> 0] ]

\* ExtractorEngine::extract, the awaited extract of the chosen extractor
\* included (the engine is borrowed mutably until it returns).  A
\* YouTubeExtractor that gets as far as its player script leaves that script
\* in its signature_decrypter: `script` is the script it fetched, None when the
\* call ended before (direct formats, or a failure on the way).  Only the
\* first registered YouTubeExtractor is ever chosen, so js_interpreter is its
\* decrypter's (the script as JSInterpreter::new keeps it, without NUL
\* characters); the locals of the delegate are gone when the engine returns.
\* YouTubeExtractor::extract panics on some pages and scripts (see
\* ExtractPage, PlayerJsNotFound and FetchPlayerJs), before it has a script as
\* well as after it has stored one.
EngineExtract(url, outcome, script) ==
    LET r == engine_extract(extractors, url, outcome)
        by_youtube == Delegated(r.calls) /\ extractors[r.result.by] = "YouTube"
    IN  /\ IsSome(script) => by_youtube
        /\ outcome = "Panic" => (by_youtube /\ (IsSome(script) => debug))
        /\ reg_url' = Some(url)
        /\ reg_calls' = r.calls
        /\ reg_result' = r.result
        /\ js_interpreter' = IF IsSome(script) THEN script ELSE js_interpreter
        /\ UNCHANGED <<debug, stdout_gone, extractors, transform_cache, yt_pc, yt_video_id, yt_html, yt_pattern,
                       yt_events, yt_result, yt_js, js_interpreter0,
                       selVars, sigVars, dlVars, utilVars, nsigVars>>

(***************************************************************************)
(* core/downloader.rs: download, download_format and perform_download.     *)
(* The remote resource is the byte sequence 1..total.  The server is the   *)
(* environment: it answers each request with a status, or the request      *)
(* fails on the network.  A 206 answers a Range request with the bytes     *)
(* from the offset on; a 200 carries the whole resource, whether or not    *)
(* the request had a Range header (a server may ignore the header).        *)
(***************************************************************************)
MAX_RETRIES == 3
NetErr == 0
Statuses == {200, 206, 403, 404, 416, 500}

Range(a, b) == [j \in 1..(b - a + 1) |-> a + j - 1]

\* `status.is_success() || status.as_u16() == 206`
IsSuccess(status) == (status >= 200 /\ status <= 299) \/ status = 206

\* (a variant that retries every client and server error)
RetryAnyError(status, att) == status >= 400 /\ att < MAX_RETRIES
\* `status.as_u16() == 403 && attempt < MAX_RETRIES`
Retry403(status, att) == status = 403 /\ att < MAX_RETRIES

\* (a variant that starts the backoff at one second)
BackoffFromOne(att) == 2 ^ (att - 1)
\* `2_u64.pow(attempt)`
Backoff(att) == 2 ^ att

\* what the server can answer to a request with the given Range header
ServerCanAnswer(range, status) ==
    CASE status = 206 -> IsSome(range) /\ Unwrap(range) < total
      [] status = 416 -> IsSome(range)
      [] OTHER        -> TRUE

\* the body of a successful response
ServerBody(range, status) ==
    IF status = 206 THEN Range(Unwrap(range) + 1, total) ELSE Range(1, total)

\* the `let resume_from = if output_path.exists() { .. }` of download_format
ResumeFrom(f) == IF IsSome(f) THEN Some(Len(Unwrap(f))) ELSE None

\* tokio::fs::File.  write_all copies the chunk into the file's buffer, hands
\* the write to a blocking thread and returns; the bytes reach the file when
\* that thread has run.  The next write_all, and flush, first wait for the
\* write in flight.  Nothing else waits for it: a File dropped on an error
\* path leaves its write in flight, and it lands whenever the thread runs.
\* Land is the file after the write in flight w, if there is one, has run: at
\* the end of the file for a file opened for append, at the file's own
\* position otherwise.  The blocking thread runs std's write_all, which fails
\* once the system refuses a write (disk full, file size limit) and leaves in
\* the file what it took before: `short` is the number of bytes of w that did
\* not get there, 0 for a write that succeeds.  A write that has failed stays
\* with the File as an error to report (failed: nothing of it is in flight any
\* more) until the next write_all or flush takes it.
Land(f, w, short) ==
    IF w = None THEN f
    ELSE LET c == Unwrap(f)
             b == SubSeq(Unwrap(w).bytes, 1, Len(Unwrap(w).bytes) - short)
         IN  IF Unwrap(w).at = None THEN Some(c \o b)
             ELSE LET p == Unwrap(Unwrap(w).at)
                  IN  Some(SubSeq(c, 1, p) \o b \o SubSeq(c, p + Len(b) + 1, Len(c)))

\* Downloader::download up to the retry loop of download_format.  A call can
\* follow an earlier call to the same path (whose locals are gone, and whose
\* File was dropped with the write it had in flight) as long as the file is
\* still short of the resource.
Download ==
    /\ \/ dl_pc = "idle"
       \/ dl_pc = "done" /\ (IsSome(file) => Len(Unwrap(file)) < total)
    /\ stale' = IF IsSome(pending) /\ Unwrap(pending).failed THEN stale ELSE stale \o pending
    /\ Len(stale') <= MaxStale
    /\ stale0' = stale'
    /\ pending' = None
    /\ file0' = file
    /\ best' = select_best_format(formats)
    /\ attempt' = 0
    /\ requests' = <<>> /\ responses' = <<>> /\ waits' = <<>>
    /\ body' = <<>> /\ downloaded' = 0 /\ expected_total' = None
    /\ IF best'.tag = "Err"
       THEN /\ dl_pc' = "done"
            /\ dl_result' = Err(best'.val)
            /\ resume_from' = None
       ELSE /\ resume_from' = ResumeFrom(file)
            /\ dl_pc' = "send"
            /\ dl_result' = NotCalled
    /\ UNCHANGED <<debug, stdout_gone, formats, total, file, sigVars, regVars, ytVars, utilVars, nsigVars>>

\* one iteration of the `loop` of download_format whose request fails to send
SendFails ==
    /\ dl_pc = "send"
    /\ attempt' = attempt + 1
    /\ requests' = Append(requests, resume_from)
    /\ responses' = Append(responses, NetErr)
    /\ IF attempt' >= MAX_RETRIES
       THEN /\ dl_pc' = "done"
            /\ dl_result' = Err(<<"network error">>)
            /\ UNCHANGED waits
       ELSE /\ waits' = Append(waits, Backoff(attempt'))
            /\ UNCHANGED <<dl_pc, dl_result>>
    /\ UNCHANGED <<debug, stdout_gone, expected_total, total, file, file0, pending, stale, stale0, resume_from, body, downloaded,
                   selVars, sigVars, regVars, ytVars, utilVars, nsigVars>>

\* one iteration of the `loop` of download_format whose request is answered
SendAnswered(status) ==
    /\ dl_pc = "send"
    /\ ServerCanAnswer(resume_from, status)
    /\ attempt' = attempt + 1
    /\ requests' = Append(requests, resume_from)
    /\ responses' = Append(responses, status)
    /\ IF IsSuccess(status)
       THEN /\ dl_pc' = "open"
            /\ body' = ServerBody(resume_from, status)
            /\ UNCHANGED <<waits, dl_result>>
       ELSE IF Retry403(status, attempt')
       THEN /\ waits' = Append(waits, Backoff(attempt'))
            /\ UNCHANGED <<dl_pc, body, dl_result>>
       ELSE /\ dl_pc' = "done"
            /\ dl_result' = Err(<<"Failed to download after attempts: HTTP", attempt', status>>)
            /\ UNCHANGED <<waits, body>>
    /\ UNCHANGED <<debug, stdout_gone, expected_total, total, file, file0, pending, stale, stale0, resume_from, downloaded,
                   selVars, sigVars, regVars, ytVars, utilVars, nsigVars>>

\* what the file holds once perform_download has opened it:
\* OpenOptions::new().create(true).append(true) when resuming, File::create
\* (which truncates) otherwise
OpenForWrite(resume, f) == IF IsSome(resume) /\ IsSome(f) THEN f ELSE Some(<<>>)

\* what unwinds out of download when println! cannot write to stdout, and
\* when the flush of stdout that follows a print! is unwrapped
PrintPanic == [tag |-> "Panic", val |-> <<"failed printing to stdout: Broken pipe (os error 32)">>]
FlushPanic == [tag |-> "Panic", val |-> <<"called Result::unwrap() on an Err value: BrokenPipe">>]

\* Whether a print finds stdout a pipe whose reader is gone: it does once an
\* earlier print has, and otherwise when the reader has left since the last
\* print (`reader` is whether the reader is still there).  println! and the
\* unwrap of a flush of stdout panic then.
ReaderGone(reader) == stdout_gone \/ ~reader

\* perform_download up to the chunk loop: `sized` is whether the response has
\* a content length (response.content_length()); append to the file when
\* resuming, File::create (which truncates) otherwise, `ok` being whether the
\* file could be opened (the `?` of `.open(&output_path).await?` and
\* `File::create(..).await?`); then println!("Downloading {} bytes...") and,
\* when resuming, println!("Resuming from {} bytes"), which panic when the
\* reader of stdout is gone: the File is dropped, the file stays as opened.
OpenFile(ok, sized, reader) ==
    /\ dl_pc = "open"
    /\ IF ok
       THEN /\ downloaded' = IF IsSome(resume_from) THEN Unwrap(resume_from) ELSE 0
            /\ file' = OpenForWrite(resume_from, file)
            /\ expected_total' = IF sized THEN Some(Len(body) + downloaded') ELSE None
            /\ stdout_gone' = ReaderGone(reader)
            /\ IF stdout_gone'
               THEN dl_pc' = "done" /\ dl_result' = PrintPanic
               ELSE dl_pc' = "stream" /\ UNCHANGED dl_result
       ELSE /\ dl_pc' = "done"
            /\ dl_result' = Err(<<"io error">>)
            /\ UNCHANGED <<downloaded, file, expected_total, stdout_gone>>
    /\ UNCHANGED <<debug, total, file0, pending, stale, stale0, resume_from, attempt,
                   requests, responses, waits, body,
                   selVars, sigVars, regVars, ytVars, utilVars, nsigVars>>

\* one iteration of `while let Some(chunk) = stream.next().await`: write_all
\* waits for the write in flight, which succeeds, takes the chunk and returns;
\* then the progress is printed and stdout flushed, `.unwrap()` (always when
\* the total is known, else when `downloaded % (1024 * 1024) == 0`): with the
\* reader of stdout gone that panics, and the File is dropped with the write
\* of this chunk in flight
WriteChunk(n, reader) ==
    /\ dl_pc = "stream"
    /\ n <= Len(body)
    /\ IsSome(pending) => ~Unwrap(pending).failed
    /\ downloaded' = downloaded + n
    /\ file' = Land(file, pending, 0)
    /\ pending' = Some([bytes |-> SubSeq(body, 1, n),
                        at |-> IF IsSome(resume_from) THEN None ELSE Some(downloaded),
                        failed |-> FALSE])
    /\ body' = SubSeq(body, n + 1, Len(body))
    /\ IF IsSome(expected_total) \/ downloaded' % (1024 * 1024) = 0
       THEN /\ stdout_gone' = ReaderGone(reader)
            /\ IF stdout_gone'
               THEN dl_pc' = "done" /\ dl_result' = FlushPanic
               ELSE UNCHANGED <<dl_pc, dl_result>>
       ELSE UNCHANGED <<stdout_gone, dl_pc, dl_result>>
    /\ UNCHANGED <<debug, expected_total, total, file0, stale, stale0, resume_from,
                   attempt, requests, responses, waits,
                   selVars, sigVars, regVars, ytVars, utilVars, nsigVars>>

\* the blocking thread runs the write in flight, which succeeds or fails
\* `short` bytes from its end (short > 0).  While the call is in its chunk
\* loop the File keeps the error of a write that failed for the next
\* write_all or flush (WriteFails); after the call has returned the File is
\* gone and nobody is told.
WriteLands(short) ==
    /\ IsSome(pending)
    /\ ~Unwrap(pending).failed
    /\ short <= Len(Unwrap(pending).bytes)
    /\ file' = Land(file, pending, short)
    /\ pending' = IF short > 0 /\ dl_pc = "stream"
                  THEN Some([bytes |-> <<>>, at |-> Unwrap(pending).at, failed |-> TRUE])
                  ELSE None
    /\ UNCHANGED <<debug, stdout_gone, expected_total, total, file0, stale, stale0, resume_from, attempt, requests, responses,
                   waits, body, downloaded, dl_pc, dl_result,
                   selVars, sigVars, regVars, ytVars, utilVars, nsigVars>>

\* the blocking thread runs a write a dropped File left in flight, which
\* succeeds or fails `short` bytes from its end
StaleLands(short) ==
    /\ stale # <<>>
    /\ short <= Len(Head(stale).bytes)
    /\ file' = Land(file, Some(Head(stale)), short)
    /\ stale' = Tail(stale)
    /\ UNCHANGED <<debug, stdout_gone, expected_total, total, file0, pending, stale0, resume_from, attempt, requests, responses,
                   waits, body, downloaded, dl_pc, dl_result,
                   selVars, sigVars, regVars, ytVars, utilVars, nsigVars>>

\* the `?` of `file.write_all(&chunk).await?` (n > 0: the next chunk, already
\* counted in `downloaded`) and of `file.flush().await?` (n = 0), which report
\* the error of the write that failed before them (see WriteLands).  The
\* flush comes after the println!() that ends the progress line, so it is
\* reached only when that print found the reader of stdout (see StreamEnds).
WriteFails(n) ==
    /\ dl_pc = "stream"
    /\ IsSome(pending) /\ Unwrap(pending).failed
    /\ IF n = 0 THEN body = <<>> /\ ~stdout_gone ELSE n <= Len(body)
    /\ downloaded' = downloaded + n
    /\ body' = SubSeq(body, n + 1, Len(body))
    /\ pending' = None
    /\ dl_pc' = "done"
    /\ dl_result' = Err(<<"io error">>)
    /\ UNCHANGED <<debug, stdout_gone, expected_total, total, file, file0, stale, stale0, resume_from, attempt, requests,
                   responses, waits,
                   selVars, sigVars, regVars, ytVars, utilVars, nsigVars>>

\* `let chunk = chunk?;` on an item of the stream that is an error, wherever
\* in the stream it comes; the File is dropped with its write in flight
ChunkFails ==
    /\ dl_pc = "stream"
    /\ dl_pc' = "done"
    /\ dl_result' = Err(<<"stream error">>)
    /\ UNCHANGED <<debug, stdout_gone, expected_total, total, file, file0, pending, stale, stale0, resume_from, attempt, requests,
                   responses, waits, body, downloaded,
                   selVars, sigVars, regVars, ytVars, utilVars, nsigVars>>

\* the stream is exhausted: println!() ends the progress line, then flush
\* waits for the write in flight, which succeeds, return Ok(()).  With the
\* reader of stdout gone the println!() panics before the flush: the File is
\* dropped with its write in flight, and a write that has failed is never
\* reported.
StreamEnds(reader) ==
    /\ dl_pc = "stream"
    /\ body = <<>>
    /\ dl_pc' = "done"
    /\ stdout_gone' = ReaderGone(reader)
    /\ IF stdout_gone'
       THEN /\ dl_result' = PrintPanic
            /\ pending' = IF IsSome(pending) /\ Unwrap(pending).failed THEN None ELSE pending
            /\ UNCHANGED file
       ELSE /\ IsSome(pending) => ~Unwrap(pending).failed
            /\ file' = Land(file, pending, 0)
            /\ pending' = None
            /\ dl_result' = Ok(<<>>)
    /\ UNCHANGED <<debug, expected_total, total, file0, stale, stale0, resume_from,
                   attempt, requests, responses, waits, body, downloaded,
                   selVars, sigVars, regVars, ytVars, utilVars, nsigVars>>

DlIdle ==
    /\ total = 0 /\ file = None /\ file0 = None /\ resume_from = None /\ attempt = 0
    /\ pending = None /\ stale = <<>> /\ stale0 = <<>>
    /\ requests = <<>> /\ responses = <<>> /\ waits = <<>> /\ body = <<>>
    /\ downloaded = 0 /\ expected_total = None /\ dl_pc = "idle" /\ dl_result = NotCalled

(***************************************************************************)
(* extractors/youtube.rs and youtube_signature.rs.                         *)
(*                                                                         *)
(* A player script is known to the model by what the code can get out of   *)
(* it: the names its regular expressions capture and what executing a      *)
(* named function of the script returns.  A script function is either one  *)
(* that throws (or does not exist), or one that computes a permutation of  *)
(* its argument, written as the operation sequence it performs: `ops` when *)
(* it is the first thing run in a runtime after the script is loaded,      *)
(* `again` when it has run in that runtime before (a function can keep     *)
(* state in the globals of its script).                                    *)
(***************************************************************************)
JsThrows == [throws |-> TRUE, ops |-> <<>>, again |-> <<>>]
JsFn(ops, again) == [throws |-> FALSE, ops |-> ops, again |-> again]
FnNames == {"Xa", "Na", "Nb", "dummyFunction"}

\* sig_name: the name find_signature_function_name's patterns capture (None: no
\*           pattern matches); obj_name: what find_transform_object_name's
\*           patterns capture for that function; nsig_names: the captures of
\*           the patterns of decrypt_nsig that match, in pattern order; fns:
\*           the script's functions as the interpreter runs them.  The methods
\*           of the object's literal are no part of it: the code's patterns
\*           find none in any script (see extract_transform_operations).
\*           nul: the text holds NUL characters (which no pattern looks at).
\*           loads: evaluating the whole text (ctx.eval) succeeds; split500:
\*           byte 500 of the text without its NULs is inside a multi-byte
\*           character.
ScriptA ==
    [ id |-> "player_a", nul |-> FALSE, loads |-> TRUE, split500 |-> FALSE,
      sig_name |-> Some("Xa"), obj_name |-> Some("Ob"),
      nsig_names |-> <<"Na">>,
      fns |-> [f \in FnNames |-> CASE f = "Xa" -> JsFn(<<Swap(1)>>, <<Reverse>>)
                                   [] f = "Na" -> JsFn(<<Reverse>>, <<Reverse>>)
                                   [] OTHER    -> JsThrows] ]
ScriptB ==
    [ id |-> "player_b", nul |-> FALSE, loads |-> TRUE, split500 |-> TRUE,
      sig_name |-> Some("Xa"), obj_name |-> Some("Ob"),
      nsig_names |-> <<"Na", "Nb">>,
      fns |-> [f \in FnNames |-> CASE f = "Nb" -> JsFn(<<Swap(1)>>, <<Swap(1)>>)
                                   [] OTHER    -> JsThrows] ]
ScriptC ==
    [ id |-> "player_c", nul |-> FALSE, loads |-> TRUE, split500 |-> FALSE,
      sig_name |-> None, obj_name |-> None,
      nsig_names |-> <<>>,
      fns |-> [f \in FnNames |-> JsThrows] ]
\* a signature function that throws and whose helper object is not found
ScriptD ==
    [ id |-> "player_d", nul |-> FALSE, loads |-> TRUE, split500 |-> FALSE,
      sig_name |-> Some("Xa"), obj_name |-> None,
      nsig_names |-> <<>>,
      fns |-> [f \in FnNames |-> JsThrows] ]
\* a text that ctx.eval rejects, with a multi-byte character across byte 500
ScriptE ==
    [ id |-> "player_e", nul |-> FALSE, loads |-> FALSE, split500 |-> TRUE,
      sig_name |-> Some("Xa"), obj_name |-> Some("Ob"),
      nsig_names |-> <<"Na">>,
      fns |-> [f \in FnNames |-> JsThrows] ]
Scripts == {ScriptA, ScriptB, ScriptC, ScriptD, ScriptE}

\* (a variant whose runtime has run the script's functions before)
Runtime_kept == [calls |-> 1]
\* `Runtime::new()` and `Context::full(&runtime)`: a runtime and a context made
\* for this execution, in which nothing has run
Runtime_new == [calls |-> 0]

\* JSInterpreter::decrypt_signature: load the interpreter's script into a
\* runtime of its own and run function `name` of it on `input`.  When the
\* load fails, tracing::debug! is given
\* `&self.js_code[..min(500, self.js_code.len())]` before the error is
\* returned, which panics on a text whose byte 500 is inside a character.
JsCall(script, name, input) ==
    LET runtime == Runtime_new
        f == script.fns[name]
    IN  IF ~script.loads
        THEN IF debug /\ script.split500
             THEN [tag |-> "Panic", val |-> "byte index 500 is not a char boundary"]
             ELSE Err("Failed to evaluate JavaScript")
        ELSE IF f.throws THEN Err("Function execution failed")
        ELSE Ok(ApplyOps(IF runtime.calls = 0 THEN f.ops ELSE f.again, input))

\* SignatureDecrypter::find_signature_function_name
find_signature_function_name(js) ==
    IF IsSome(js.sig_name) THEN Unwrap(js.sig_name) ELSE "dummyFunction"

\* SignatureDecrypter::find_transform_object_name
find_transform_object_name(js, sig_func_name) ==
    IF sig_func_name = "dummyFunction" THEN "dummyObject"
    ELSE IF IsSome(js.obj_name) THEN Unwrap(js.obj_name) ELSE "dummyObject"

DefaultOperations == <<Reverse, Splice(1), Swap(39)>>

\* (a variant without the `if operations.is_empty()` fallback)
extract_transform_operations_as_found(js, transform_obj_name) ==
    IF transform_obj_name = "dummyObject" THEN DefaultOperations ELSE <<>>
\* SignatureDecrypter::extract_transform_operations.  `pushed` is what the
\* loop over method_re.captures_iter(obj_body) pushes onto `operations`.  obj_body is the
\* capture `([^}]+)` of an object pattern, so it holds no '}', and method_re
\* `name:function(..)\{([^}]+)\}` needs one: the loop pushes nothing, whatever
\* the script is.
extract_transform_operations(js, transform_obj_name) ==
    LET pushed == <<>>
    IN  IF transform_obj_name = "dummyObject" THEN DefaultOperations
        ELSE IF pushed = <<>> THEN DefaultOperations
        ELSE pushed

\* SignatureDecrypter::extract_signature_operations
extract_signature_operations(js) ==
    extract_transform_operations(js,
        find_transform_object_name(js, find_signature_function_name(js)))

\* SignatureDecrypter::decrypt_signature: the interpreter first, then the
\* pattern-based operations.  interp is self.js_interpreter.  A panic of the
\* interpreter unwinds through it; an error of the interpreter is only logged.
decrypt_signature(interp, sig, js) ==
    LET viaJs == IF IsSome(interp)
                 THEN JsCall(Unwrap(interp), find_signature_function_name(js), sig)
                 ELSE Err("no interpreter")
    IN  IF viaJs.tag \in {"Ok", "Panic"} THEN viaJs
        ELSE Ok(ApplyOps(extract_signature_operations(js), sig))

\* the `for pattern in &nsig_patterns` loop of decrypt_nsig from the k-th
\* matching pattern on
RECURSIVE NsigTry(_, _, _, _)
NsigTry(interp, names, k, nsig) ==
    IF k > Len(names) THEN Ok(nsig)
    ELSE LET r == JsCall(interp, names[k], nsig)
         IN  IF r.tag \in {"Ok", "Panic"} THEN r ELSE NsigTry(interp, names, k + 1, nsig)

\* SignatureDecrypter::decrypt_nsig
decrypt_nsig(interp, nsig, js) ==
    IF IsSome(interp) THEN NsigTry(Unwrap(interp), js.nsig_names, 1, nsig) ELSE Ok(nsig)

(***************************************************************************)
(* URLs of formats.  A URL text is a base followed by the "&key=value"     *)
(* pieces appended to it.  The bases are fixed strings; BaseKind says how  *)
(* Url::parse reads a text that starts with the base: "query" (absolute,   *)
(* the base ends inside its query string, so appended pieces are query     *)
(* pairs), "path" (absolute, no '?', so appended pieces are part of the    *)
(* path) or "relative" (Url::parse fails).  Keys and values are            *)
(* alphanumeric, so form-urlencoding writes them back unchanged.           *)
(* reserialized is TRUE when the text ends with the '?' that               *)
(* query_pairs_mut adds to a URL that had no query.                        *)
(* BaseLong is a "query" base of 101 bytes whose last character takes      *)
(* bytes 99 and 100, so that byte 100 of every text that starts with it    *)
(* is inside a character; form-urlencoding writes that character as        *)
(* "%C3%A9" (BaseLongEncoded).  The texts built on the other bases are     *)
(* shorter than 100 bytes.                                                 *)
(***************************************************************************)
UrlText(base, tail) == [base |-> base, tail |-> tail, reserialized |-> FALSE]
BaseQuery == "https://r1.googlevideo.com/videoplayback?expire=1"
BasePath == "https://r1.googlevideo.com/videoplayback"
BaseRelative == "/videoplayback?expire=1"
BaseLong ==
    "https://r1.googlevideo.com/videoplayback?expire=1&pad=aaaaaaaaaaaaaaaaaaaaaaaaaaaaaaaaaaaaaaaaaaaaaé"
BaseLongEncoded ==
    "https://r1.googlevideo.com/videoplayback?expire=1&pad=aaaaaaaaaaaaaaaaaaaaaaaaaaaaaaaaaaaaaaaaaaaaa%C3%A9"
BaseKind(base) ==
    CASE base \in {BaseQuery, BaseLong, BaseLongEncoded} -> "query"
      [] base = BasePath                                 -> "path"
      [] OTHER                                           -> "relative"

RECURSIVE WithoutKey(_, _)
WithoutKey(pairs, key) ==
    IF pairs = <<>> THEN <<>>
    ELSE IF Head(pairs)[1] = key THEN WithoutKey(Tail(pairs), key)
    ELSE <<Head(pairs)>> \o WithoutKey(Tail(pairs), key)

\* the `if let Ok(mut url_obj) = url::Url::parse(&final_url) { .. }` block of
\* parse_format_with_js: rebuild the query without its n pairs
RemoveN(u) ==
    CASE BaseKind(u.base) = "query" ->
             [u EXCEPT !.base = IF @ = BaseLong THEN BaseLongEncoded ELSE @,
                       !.tail = WithoutKey(u.tail, "n")]
      [] BaseKind(u.base) = "path"  -> [u EXCEPT !.reserialized = TRUE]
      [] OTHER                      -> u


\* CipherParams: the decoded signatureCipher / cipher query string
Cipher(url, s, sp, n) == [url |-> url, s |-> s, sp |-> sp, n |-> n]

\* YouTubeExtractor::process_cipher_format: Ok of the URL, if the entry
\* yields one, unless a decryption panics
process_cipher_format(interp, format, js) ==
    IF ~IsSome(format.cipher) THEN Ok(None)
    ELSE LET params == Unwrap(format.cipher)
             sp == IF IsSome(params.sp) THEN Unwrap(params.sp) ELSE "signature"
         IN  IF IsSome(params.url) /\ IsSome(params.s)
             THEN LET dec == decrypt_signature(interp, Unwrap(params.s), js)
                      raw_url == UrlText(Unwrap(params.url), <<<<sp, Unwrap(params.s)>>>>)
                      withSig == UrlText(Unwrap(params.url), <<<<sp, dec.val>>>>)
                      nsig == decrypt_nsig(interp, Unwrap(params.n), js)
                  IN  IF dec.tag = "Panic" THEN dec
                      ELSE IF dec.tag = "Err" THEN Ok(Some(raw_url))
                      ELSE IF ~IsSome(params.n) THEN Ok(Some(withSig))
                      ELSE IF nsig.tag = "Panic" THEN nsig
                      ELSE Ok(Some([withSig EXCEPT !.tail =
                                @ \o <<<<"n", IF nsig.tag = "Ok" THEN nsig.val
                                                ELSE Unwrap(params.n)>>>>]))
             ELSE IF IsSome(params.url) THEN Ok(Some(UrlText(Unwrap(params.url), <<>>)))
             ELSE Ok(None)

\* the decryptions process_cipher_format invokes for one format
CipherEvents(interp, format, js) ==
    IF ~IsSome(format.cipher) THEN <<>>
    ELSE LET params == Unwrap(format.cipher)
         IN  IF IsSome(params.url) /\ IsSome(params.s)
             THEN <<"decrypt_signature">>
                  \o (IF /\ IsSome(params.n)
                         /\ decrypt_signature(interp, Unwrap(params.s), js).tag = "Ok"
                      THEN <<"decrypt_nsig">> ELSE <<>>)
             ELSE <<>>

\* `mime_type.contains(needle)` for the mime types of the model
MimeContains(mime, needle) ==
    CASE needle = "video/mp4"  -> mime = "video/mp4; codecs=avc1"
      [] needle = "video/webm" -> mime = "video/webm; codecs=vp9"
      [] needle = "audio/mp4"  -> mime = "audio/mp4; codecs=mp4a"
      [] needle = "audio/webm" -> mime = "audio/webm; codecs=opus"
      [] OTHER                 -> FALSE

\* YouTubeExtractor::parse_mime_type
parse_mime_type(mime) ==
    IF MimeContains(mime, "video/mp4") THEN <<Some("h264"), Some("aac"), "mp4">>
    ELSE IF MimeContains(mime, "video/webm") THEN <<Some("vp9"), Some("opus"), "webm">>
    ELSE IF MimeContains(mime, "audio/mp4") THEN <<None, Some("aac"), "m4a">>
    ELSE IF MimeContains(mime, "audio/webm") THEN <<None, Some("opus"), "webm">>
    ELSE <<None, None, "unknown">>

\* `.and_then(|v| v.as_i64()).map(|i| i.to_string()).unwrap_or_else(|| "unknown")`
ItagString(itag) ==
    IF ~IsSome(itag) THEN "unknown"
    ELSE CASE Unwrap(itag) = 18  -> "18"
           [] Unwrap(itag) = 140 -> "140"
           [] OTHER              -> "251"

\* the VideoFormat that parse_format_direct and parse_format_with_js build
\* from a raw entry once its url is known
BuildFormat(format, url) ==
    LET mime == IF IsSome(format.mimeType) THEN Unwrap(format.mimeType)
                ELSE "video/mp4; codecs=avc1"
        m == parse_mime_type(mime)
    IN  [ format_id |-> ItagString(format.itag), url |-> url,
          vcodec |-> m[1], acodec |-> m[2], ext |-> m[3], tbr |-> format.bitrate ]

\* YouTubeExtractor::parse_format_direct
parse_format_direct(format, url) == Some(BuildFormat(format, url))

\* YouTubeExtractor::parse_format_with_js.  tracing::debug! is given
\* `&url[..100.min(url.len())]` of the direct url and of the url that
\* process_cipher_format returned, which panics on a text whose byte 100 is
\* inside a character.
parse_format_with_js(interp, format, js) ==
    LET final_url == IF IsSome(format.url) THEN Ok(format.url)
                     ELSE process_cipher_format(interp, format, js)
    IN  IF final_url.tag = "Panic" THEN final_url
        ELSE IF ~IsSome(final_url.val) THEN Ok(None)
        ELSE IF debug /\ Unwrap(final_url.val).base = BaseLong
             THEN [tag |-> "Panic", val |-> "byte index 100 is not a char boundary"]
        ELSE Ok(Some(BuildFormat(format, RemoveN(Unwrap(final_url.val)))))

\* the two `for format in ..` loops of extract_formats_direct over `raw`
RECURSIVE DirectFormats(_)
DirectFormats(raw) ==
    IF raw = <<>> THEN <<>>
    ELSE IF IsSome(Head(raw).url)
         THEN <<Unwrap(parse_format_direct(Head(raw), Unwrap(Head(raw).url)))>>
              \o DirectFormats(Tail(raw))
         ELSE DirectFormats(Tail(raw))

\* the two `for format in ..` loops of extract_formats_with_js over `raw`:
\* Ok of the formats pushed, unless an entry panics
RECURSIVE JsFormats(_, _, _)
JsFormats(interp, raw, js) ==
    IF raw = <<>> THEN Ok(<<>>)
    ELSE LET f == parse_format_with_js(interp, Head(raw), js)
             rest == JsFormats(interp, Tail(raw), js)
         IN  IF f.tag = "Panic" THEN f
             ELSE IF rest.tag = "Panic" THEN rest
             ELSE Ok((IF IsSome(f.val) THEN <<Unwrap(f.val)>> ELSE <<>>) \o rest.val)

\* the decryptions those loops invoke, up to an entry that panics
RECURSIVE JsEvents(_, _, _)
JsEvents(interp, raw, js) ==
    IF raw = <<>> THEN <<>>
    ELSE (IF IsSome(Head(raw).url) THEN <<>> ELSE CipherEvents(interp, Head(raw), js))
         \o (IF parse_format_with_js(interp, Head(raw), js).tag = "Panic" THEN <<>>
             ELSE JsEvents(interp, Tail(raw), js))

\* (a variant without the emptiness check)
NeverBail(fs, msg) == Ok(fs)
\* `if formats.is_empty() { anyhow::bail!(..) } Ok(formats)`
BailIfEmpty(fs, msg) == IF fs = <<>> THEN Err(msg) ELSE Ok(fs)

\* adaptiveFormats, then formats
RawEntries(streaming_data) == streaming_data.adaptiveFormats \o streaming_data.formats

\* YouTubeExtractor::extract_formats_direct
extract_formats_direct(player_response) ==
    IF ~IsSome(player_response.streamingData) THEN Err("No streaming data found")
    ELSE BailIfEmpty(DirectFormats(RawEntries(Unwrap(player_response.streamingData))),
                     "No direct URL formats found")

\* YouTubeExtractor::extract_formats_with_js
extract_formats_with_js(interp, player_response, js) ==
    IF ~IsSome(player_response.streamingData) THEN Err("No streaming data found")
    ELSE LET fs == JsFormats(interp, RawEntries(Unwrap(player_response.streamingData)), js)
         IN  IF fs.tag = "Panic" THEN fs ELSE BailIfEmpty(fs.val, "No video formats found")

\* the VideoMetadata both extract_metadata_* functions assemble
Metadata(video_id, player_response, fs) ==
    [ id |-> video_id,
      title |-> IF IsSome(player_response.title) THEN Unwrap(player_response.title)
                ELSE "Unknown Title",
      formats |-> fs ]

\* YouTubeExtractor::extract_metadata_direct
extract_metadata_direct(player_response, video_id) ==
    IF ~player_response.videoDetails THEN Err("No video details found")
    ELSE LET fs == extract_formats_direct(player_response)
         IN  IF fs.tag = "Err" THEN fs ELSE Ok(Metadata(video_id, player_response, fs.val))

\* YouTubeExtractor::extract_metadata_with_js; html.player_response is what
\* extract_player_response finds in the page
extract_metadata_with_js(interp, html, video_id, js) ==
    IF ~IsSome(html.player_response) THEN Err("Could not find ytInitialPlayerResponse in HTML")
    ELSE LET player_response == Unwrap(html.player_response)
         IN  IF ~player_response.videoDetails THEN Err("No video details found")
             ELSE LET fs == extract_formats_with_js(interp, player_response, js)
                  IN  IF fs.tag # "Ok" THEN fs
                      ELSE Ok(Metadata(video_id, player_response, fs.val))

\* the decryptions extract_metadata_with_js invokes
MetadataJsEvents(interp, html, js) ==
    IF ~IsSome(html.player_response) THEN <<>>
    ELSE LET player_response == Unwrap(html.player_response)
         IN  IF ~player_response.videoDetails \/ ~IsSome(player_response.streamingData)
             THEN <<>>
             ELSE JsEvents(interp, RawEntries(Unwrap(player_response.streamingData)), js)

\* (a variant that takes the first query pair whatever its key)
extract_video_id_first_pair(u) ==
    IF u.host = Some("youtu.be")
    THEN IF IsSome(u.segs) THEN Some(Unwrap(u.segs)[1]) ELSE None
    ELSE IF IsSome(u.host) /\ HostContainsYoutubeCom(Unwrap(u.host)) /\ u.query # <<>>
         THEN Some(u.query[1][2])
         ELSE None
\* YouTubeExtractor::extract_video_id
extract_video_id(u) ==
    IF u.host = Some("youtu.be")
    THEN IF IsSome(u.segs) THEN Some(Unwrap(u.segs)[1]) ELSE None
    ELSE IF IsSome(u.host) /\ HostContainsYoutubeCom(Unwrap(u.host))
              /\ \E k \in 1..Len(u.query) : u.query[k][1] = "v"
         THEN LET k == CHOOSE k \in 1..Len(u.query) :
                          /\ u.query[k][1] = "v"
                          /\ \A j \in 1..(k - 1) : u.query[j][1] # "v"
              IN  Some(u.query[k][2])
         ELSE None

\* Raw format entries of the player response (serde_json objects), by the
\* fields the code reads: url, signatureCipher / cipher (decoded), itag,
\* mimeType and bitrate (in halves, as tbr).
RawFormat(url, cipher, itag, mime, bitrate) ==
    [url |-> url, cipher |-> cipher, itag |-> itag, mimeType |-> mime, bitrate |-> bitrate]
SigS == <<"a", "b", "c">>
TokN == <<"x", "y">>
RawDirect ==
    RawFormat(Some(UrlText(BaseQuery, <<>>)), None, Some(18),
              Some("video/mp4; codecs=avc1"), Some(1000))
RawCipherFull ==
    RawFormat(None, Some(Cipher(Some(BaseQuery), Some(SigS), None, Some(TokN))), Some(18),
              Some("video/mp4; codecs=avc1"), Some(1000))
RawCipherFullPath ==
    RawFormat(None, Some(Cipher(Some(BasePath), Some(SigS), Some("sig"), Some(TokN))), Some(140),
              Some("audio/mp4; codecs=mp4a"), Some(1))
RawCipherFullRelative ==
    RawFormat(None, Some(Cipher(Some(BaseRelative), Some(SigS), None, Some(TokN))), Some(251),
              Some("audio/webm; codecs=opus"), None)
RawCipherNoN ==
    RawFormat(None, Some(Cipher(Some(BaseQuery), Some(SigS), None, None)), Some(18),
              None, None)
RawCipherUrlOnly ==
    RawFormat(None, Some(Cipher(Some(BaseQuery), None, None, None)), None,
              Some("text/plain"), None)
RawCipherNoUrl ==
    RawFormat(None, Some(Cipher(None, Some(SigS), None, None)), Some(140),
              Some("video/webm; codecs=vp9"), None)
RawCipherLong ==
    RawFormat(None, Some(Cipher(Some(BaseLong), Some(SigS), None, None)), Some(18),
              Some("video/mp4; codecs=avc1"), Some(1000))
RawBare == RawFormat(None, None, None, None, None)
RawFormats == {RawDirect, RawCipherFull, RawCipherFullPath, RawCipherFullRelative,
               RawCipherNoN, RawCipherUrlOnly, RawCipherNoUrl, RawCipherLong, RawBare}


\* The watch page, by what the code finds in it: the player response
\* (extract_player_response) and how many of the patterns of
\* extract_player_js match it.
StreamingData ==
    [ adaptiveFormats : SeqsUpTo(RawFormats, MaxAdaptive),
      formats : SeqsUpTo({RawDirect, RawCipherFull}, 1) ]
PlayerResponses ==
    [ videoDetails : BOOLEAN,
      title : {Some("Test Video")},
      streamingData : {None} \cup {Some(sd) : sd \in StreamingData} ]
Pages ==
    [ player_response : {None} \cup {Some(pr) : pr \in PlayerResponses},
      js_patterns : 0..2 ]
NoPage == [player_response |-> None, js_patterns |-> 0]

\* What the GET of the watch page meets: a transport failure, a non-2xx
\* status, an empty body, a body without "html" in it (nothtml_split: one
\* whose byte 200 is inside a multi-byte character), or a page.
PageResponses ==
    {[kind |-> k, html |-> NoPage] :
        k \in {"neterr", "status", "empty", "nothtml", "nothtml_split"}}
    \cup {[kind |-> "html", html |-> h] : h \in Pages}

\* What the GET of the player script meets.
ScriptResponses ==
    {[kind |-> k, script |-> ScriptC] : k \in {"neterr", "status"}}
    \cup {[kind |-> "ok", script |-> [js EXCEPT !.nul = n]] : js \in Scripts, n \in BOOLEAN}

\* SignatureDecrypter::init_js_interpreter; JSInterpreter::new returns Ok for
\* every js_code and keeps clean_js_code(js_code), the text without its NUL
\* characters
init_js_interpreter(old, js_code) == Some([js_code EXCEPT !.nul = FALSE])

\* YouTubeExtractor::extract up to the GET of the watch page: the identifier
ExtractIdentify(url) ==
    /\ yt_pc = "idle"
    /\ UrlParse(url).tag = "Ok"
    /\ LET video_id == extract_video_id(UrlParse(url).val)
       IN  /\ yt_video_id' = video_id
           /\ IF IsSome(video_id)
              THEN /\ yt_pc' = "page"
                   /\ UNCHANGED yt_result
              ELSE /\ yt_pc' = "done"
                   /\ yt_result' = Err("Could not extract video ID from URL")
    /\ js_interpreter0' = js_interpreter
    /\ UNCHANGED <<debug, stdout_gone, js_interpreter, transform_cache, yt_html, yt_pattern, yt_events, yt_js,
                   selVars, sigVars, regVars, dlVars, utilVars, nsigVars>>

\* YouTubeExtractor::extract from the GET of the watch page up to
\* extract_player_js: the checks of the response, the player response and the
\* direct attempt.  A call that panics leaves no Result: yt_result has the tag
\* "Panic", and the extractor is as the unwinding leaves it.
ExtractPage(resp) ==
    /\ yt_pc = "page"
    /\ yt_events' = <<"fetch_page">>
    /\ yt_html' = resp.html
    /\ LET pr == resp.html.player_response
           direct == extract_metadata_direct(Unwrap(pr), Unwrap(yt_video_id))
           fail(msg) == /\ yt_pc' = "done"
                        /\ yt_result' = Err(msg)
                        /\ UNCHANGED yt_pattern
       IN  IF resp.kind = "neterr" THEN fail("transport error")
           ELSE IF resp.kind = "status" THEN fail("Failed to fetch YouTube page: HTTP")
           ELSE IF resp.kind = "empty" THEN fail("Empty response from YouTube")
           ELSE IF resp.kind = "nothtml" THEN fail("Response doesn't appear to be HTML")
           ELSE IF resp.kind = "nothtml_split"
                THEN \* `&html[..min(200, html.len())]` in the bail! panics
                     /\ yt_pc' = "done"
                     /\ yt_result' = [tag |-> "Panic",
                                      val |-> "byte index 200 is not a char boundary"]
                     /\ UNCHANGED yt_pattern
           ELSE IF ~IsSome(pr) THEN fail("Could not find ytInitialPlayerResponse in HTML")
           ELSE IF direct.tag = "Ok"
                THEN /\ yt_pc' = "done"
                     /\ yt_result' = direct
                     /\ UNCHANGED yt_pattern
                ELSE /\ yt_pc' = "js"
                     /\ yt_pattern' = 1
                     /\ UNCHANGED yt_result
    /\ UNCHANGED <<debug, stdout_gone, js_interpreter, transform_cache, yt_video_id, yt_js, js_interpreter0,
                   selVars, sigVars, regVars, dlVars, utilVars, nsigVars>>

\* One iteration of the pattern loop of extract_player_js for a pattern that
\* matches: the script is requested.  A transport failure ends the call, a
\* non-2xx status falls through to the next pattern, and a script is handed
\* to init_js_interpreter and extract_metadata_with_js.  When
\* extract_metadata_with_js panics the decrypter keeps the script it was given
\* before.
FetchPlayerJs(resp) ==
    /\ yt_pc = "js"
    /\ yt_pattern <= yt_html.js_patterns
    /\ IF resp.kind = "neterr"
       THEN /\ yt_events' = Append(yt_events, "fetch_js")
            /\ yt_pc' = "done"
            /\ yt_result' = Err("transport error")
            /\ UNCHANGED <<js_interpreter, yt_pattern, yt_js>>
       ELSE IF resp.kind = "status"
       THEN /\ yt_events' = Append(yt_events, "fetch_js")
            /\ yt_pattern' = yt_pattern + 1
            /\ UNCHANGED <<js_interpreter, yt_pc, yt_result, yt_js>>
       ELSE /\ yt_js' = Some(resp.script)
            /\ js_interpreter' = init_js_interpreter(js_interpreter, resp.script)
            /\ yt_events' = Append(yt_events, "fetch_js")
                             \o MetadataJsEvents(js_interpreter', yt_html, resp.script)
            /\ yt_result' = extract_metadata_with_js(js_interpreter', yt_html,
                                                     Unwrap(yt_video_id), resp.script)
            /\ yt_pc' = "done"
            /\ UNCHANGED yt_pattern
    /\ UNCHANGED <<debug, stdout_gone, transform_cache, yt_video_id, yt_html, js_interpreter0, selVars, sigVars, regVars, dlVars, utilVars, nsigVars>>

\* extract_player_js runs out of patterns: "Could not find player JavaScript URL".
\* Before that, tracing::debug! is given `&html[..min(1000, html.len())]`,
\* which is evaluated when the subscriber takes DEBUG events and panics when
\* byte 1000 of the page is inside a multi-byte character (sample_split: the
\* model's pages do not hold their bytes).
PlayerJsNotFound(sample_split) ==
    /\ yt_pc = "js"
    /\ yt_pattern > yt_html.js_patterns
    /\ yt_pc' = "done"
    /\ yt_result' = IF sample_split /\ debug
                    THEN [tag |-> "Panic", val |-> "byte index 1000 is not a char boundary"]
                    ELSE Err("Could not find player JavaScript URL")
    /\ UNCHANGED <<debug, stdout_gone, js_interpreter, transform_cache, yt_video_id, yt_html, yt_pattern,
                   yt_events, yt_js, js_interpreter0, selVars, sigVars, regVars, dlVars, utilVars, nsigVars>>

\* extract has returned to its caller: its locals are gone, the extractor and
\* its SignatureDecrypter stay
ExtractReturns ==
    /\ yt_pc = "done"
    /\ yt_pc' = "idle"
    /\ yt_video_id' = None
    /\ yt_html' = NoPage
    /\ yt_pattern' = 0
    /\ yt_events' = <<>>
    /\ yt_result' = NotCalled
    /\ yt_js' = None
    /\ js_interpreter0' = None
    /\ UNCHANGED <<debug, stdout_gone, js_interpreter, transform_cache, selVars, sigVars, regVars, dlVars, utilVars, nsigVars>>

\* YouTubeExtractor::new
YtIdle ==
    /\ js_interpreter = None /\ transform_cache = <<>>
    /\ yt_pc = "idle" /\ yt_video_id = None /\ yt_html = NoPage /\ yt_pattern = 0
    /\ yt_events = <<>> /\ yt_result = NotCalled
    /\ yt_js = None /\ js_interpreter0 = None

(***************************************************************************)
(* utils/mod.rs.  File names, titles and templates are sequences of        *)
(* one-character strings.                                                  *)
(***************************************************************************)
\* `c.is_control()` for the characters of the model
IsControl(c) == c \in {"\n", "\t"}

\* (a variant that leaves the backslash alone)
SanitizeCharKeepBackslash(c) ==
    CASE c \in {"<", ">", ":", "\"", "|", "?", "*"} -> "_"
      [] c = "/"                                    -> "-"
      [] IsControl(c)                               -> "_"
      [] OTHER                                      -> c
\* the `match c { .. }` of sanitize_filename
SanitizeChar(c) ==
    CASE c \in {"<", ">", ":", "\"", "|", "?", "*"} -> "_"
      [] c \in {"/", "\\"}                          -> "-"
      [] IsControl(c)                               -> "_"
      [] OTHER                                      -> c

\* sanitize_filename: `filename.chars().map(..).collect()`
sanitize_filename(name) == [j \in 1..Len(name) |-> SanitizeChar(name[j])]

\* str::replace: every non-overlapping match of pat in text, from the left
RECURSIVE Replace(_, _, _)
Replace(text, pat, val) ==
    IF Len(text) < Len(pat) \/ pat = <<>> THEN text
    ELSE IF SubSeq(text, 1, Len(pat)) = pat
         THEN val \o Replace(SubSeq(text, Len(pat) + 1, Len(text)), pat, val)
         ELSE <<Head(text)>> \o Replace(Tail(text), pat, val)

PhTitle == <<"%", "(", "t", "i", "t", "l", "e", ")", "s">>
PhId == <<"%", "(", "i", "d", ")", "s">>
PhUploader == <<"%", "(", "u", "p", "l", "o", "a", "d", "e", "r", ")", "s">>
PhExt == <<"%", "(", "e", "x", "t", ")", "s">>

\* `f.ext.as_str()` as characters, for the extensions of the model
ExtChars(ext) ==
    CASE ext = "mp4"  -> <<"m", "p", "4">>
      [] ext = "webm" -> <<"w", "e", "b", "m">>
      [] ext = "m4a"  -> <<"m", "4", "a">>
      [] OTHER        -> <<"u", "n", "k", "n", "o", "w", "n">>

\* the `best_format` of generate_output_filename: among the formats with both
\* codecs the last one of maximal `tbr.unwrap_or(0.0) as i32`, else the first
\* format, else None
FilenameBestFormat(fs) ==
    LET both == {i \in 1..Len(fs) : IsSome(fs[i].vcodec) /\ IsSome(fs[i].acodec)}
    IN  IF both # {}
        THEN Some(CHOOSE i \in both :
                    \A j \in both : \/ TbrAsI32(fs[j]) < TbrAsI32(fs[i])
                                    \/ (TbrAsI32(fs[j]) = TbrAsI32(fs[i]) /\ j <= i))
        ELSE IF fs # <<>> THEN Some(1) ELSE None

\* `.replace("%(title)s", &sanitize_filename(&metadata.title))`
SubstituteTitle(text, title) == Replace(text, PhTitle, sanitize_filename(title))

\* generate_output_filename
generate_output_filename(tpl, meta, fs) ==
    LET best_format == FilenameBestFormat(fs)
        ext == IF IsSome(best_format) THEN ExtChars(fs[Unwrap(best_format)].ext)
               ELSE ExtChars("mp4")
        uploader == IF IsSome(meta.uploader) THEN Unwrap(meta.uploader)
                    ELSE <<"U", "n", "k", "n", "o", "w", "n">>
    IN  Replace(Replace(Replace(SubstituteTitle(tpl, meta.title), PhId, meta.id),
                        PhUploader, uploader),
                PhExt, ext)

\* a call of sanitize_filename
SanitizeFilename ==
    /\ sanitize_output = None
    /\ sanitize_output' = Some(sanitize_filename(sanitize_input))
    /\ UNCHANGED <<debug, stdout_gone, sanitize_input, metadata, template, filename,
                   selVars, sigVars, regVars, dlVars, ytVars, nsigVars>>

\* a call of generate_output_filename
GenerateOutputFilename ==
    /\ filename = None
    /\ filename' = Some(generate_output_filename(template, metadata, formats))
    /\ UNCHANGED <<debug, stdout_gone, sanitize_input, sanitize_output, metadata, template,
                   selVars, sigVars, regVars, dlVars, ytVars, nsigVars>>

NoMetadata == [id |-> <<>>, title |-> <<>>, uploader |-> None]
UtilIdle ==
    /\ sanitize_input = <<>> /\ sanitize_output = None
    /\ metadata = NoMetadata /\ template = <<>> /\ filename = None

\* SignatureDecrypter::decrypt_nsig called on a decrypter
DecryptNsig ==
    /\ nsig_result = NotCalled
    /\ nsig_result' = decrypt_nsig(nsig_interp, nsig_token, nsig_js)
    /\ UNCHANGED <<debug, stdout_gone, nsig_interp, nsig_token, nsig_js,
                   selVars, sigVars, regVars, dlVars, ytVars, utilVars>>

NsigIdle ==
    /\ nsig_interp = None /\ nsig_token = <<>> /\ nsig_js = ScriptC
    /\ nsig_result = NotCalled

SelIdle == formats = <<>> /\ best = NotCalled
SigIdle ==
    /\ signature = <<>> /\ operations = <<>> /\ sig_chars = <<>>
    /\ op_done = 0 /\ sig_pc = "idle"
RegIdle ==
    /\ extractors = <<>> /\ reg_url = None /\ reg_calls = <<>>
    /\ reg_result = [tag |-> "NotCalled", val |-> "", by |-> 0]

\* select_best_format over every format list within the bounds
InitSelect ==
    /\ formats \in SeqsUpTo(VideoFormat, MaxFormats)
    /\ best = NotCalled
    /\ SigIdle /\ RegIdle /\ DlIdle /\ YtIdle /\ UtilIdle /\ NsigIdle
    /\ debug = FALSE /\ stdout_gone = FALSE
NextSelect == SelectBestFormat
SpecSelect == InitSelect /\ [][NextSelect]_vars

\* the operation loop of decrypt_signature over tokens and over values of
\* Vec<TransformOp> within the bounds.  extract_signature_operations itself
\* only ever returns [Reverse, Splice(1), Swap(39)], which is one of them; the
\* other sequences take the loop through every arm of its match.
InitSig ==
    /\ signature \in SigInputs
    /\ operations \in OpsInputs
    /\ sig_chars = <<>> /\ op_done = 0 /\ sig_pc = "idle"
    /\ SelIdle /\ RegIdle /\ DlIdle /\ YtIdle /\ UtilIdle /\ NsigIdle
    /\ debug = FALSE /\ stdout_gone = FALSE
NextSig == SigCollect \/ SigApplyOp \/ SigReturn
SpecSig == InitSig /\ [][NextSig]_vars

\* ExtractorEngine::new, then any registrations and extract calls
InitRegistry ==
    /\ SelIdle /\ SigIdle /\ RegIdle /\ DlIdle /\ YtIdle /\ UtilIdle /\ NsigIdle
    /\ debug \in BOOLEAN /\ stdout_gone = FALSE
NextRegistry ==
    \/ \E kind \in ExtractorKinds : RegisterExtractor(kind)
    \/ \E url \in Urls, outcome \in {"Ok", "Err", "Panic"},
          script \in {None} \cup {Some(js) : js \in Scripts} :
            EngineExtract(url, outcome, script)
SpecRegistry == InitRegistry /\ [][NextRegistry]_vars

\* One download call: the metadata's formats, the resource and the target file
\* (absent, or a prefix of the resource left by an earlier transfer) vary.
BothCodecsMp4 == [vcodec |-> Some("h264"), acodec |-> Some("aac"), ext |-> "mp4", tbr |-> Some(1000)]
AudioOnlyM4a == [vcodec |-> None, acodec |-> Some("aac"), ext |-> "m4a", tbr |-> Some(1001)]
InitTransfer ==
    /\ formats \in {<<>>, <<AudioOnlyM4a>>, <<AudioOnlyM4a, BothCodecsMp4>>}
    /\ best = NotCalled
    /\ total \in 1..MaxTotal
    /\ file \in {None} \cup {Some(Range(1, n)) : n \in 0..total}
    /\ file0 = file
    /\ pending = None /\ stale = <<>> /\ stale0 = <<>>
    /\ resume_from = None /\ attempt = 0
    /\ requests = <<>> /\ responses = <<>> /\ waits = <<>> /\ body = <<>>
    /\ downloaded = 0 /\ expected_total = None /\ dl_pc = "idle" /\ dl_result = NotCalled
    /\ SigIdle /\ RegIdle /\ YtIdle /\ UtilIdle /\ NsigIdle
    /\ debug = FALSE /\ stdout_gone = FALSE
NextTransfer ==
    \/ Download
    \/ SendFails
    \/ \E status \in Statuses : SendAnswered(status)
    \/ \E ok \in BOOLEAN, sized \in BOOLEAN, reader \in BOOLEAN : OpenFile(ok, sized, reader)
    \/ \E n \in 1..MaxChunk, reader \in BOOLEAN : WriteChunk(n, reader)
    \/ \E short \in 0..MaxChunk : WriteLands(short)
    \/ \E short \in 0..MaxChunk : StaleLands(short)
    \/ \E n \in 0..MaxChunk : WriteFails(n)
    \/ ChunkFails
    \/ \E reader \in BOOLEAN : StreamEnds(reader)
SpecTransfer == InitTransfer /\ [][NextTransfer]_vars

\* YouTubeExtractor::new, then any number of extract calls on it
InitExtract ==
    /\ SelIdle /\ SigIdle /\ RegIdle /\ DlIdle /\ YtIdle /\ UtilIdle /\ NsigIdle
    /\ debug \in BOOLEAN /\ stdout_gone = FALSE
NextExtract ==
    \/ \E url \in Urls : ExtractIdentify(url)
    \/ \E resp \in PageResponses : ExtractPage(resp)
    \/ \E resp \in ScriptResponses : FetchPlayerJs(resp)
    \/ \E sample_split \in BOOLEAN : PlayerJsNotFound(sample_split)
    \/ ExtractReturns
SpecExtract == InitExtract /\ [][NextExtract]_vars

\* sanitize_filename over every name within the bounds
SanitizeChars ==
    {"/", "\\", "<", ">", ":", "\"", "|", "?", "*", "\n", "\t", "a", " ", "-", "_"}
InitSanitize ==
    /\ sanitize_input \in SeqsUpTo(SanitizeChars, MaxNameLen)
    /\ sanitize_output = None
    /\ metadata = NoMetadata /\ template = <<>> /\ filename = None
    /\ SelIdle /\ SigIdle /\ RegIdle /\ DlIdle /\ YtIdle /\ NsigIdle
    /\ debug = FALSE /\ stdout_gone = FALSE
NextSanitize == SanitizeFilename
SpecSanitize == InitSanitize /\ [][NextSanitize]_vars

\* decrypt_nsig over decrypters with and without an interpreter, tokens and
\* scripts
InitNsig ==
    /\ nsig_interp \in {None} \cup {Some(js) : js \in Scripts}
    /\ nsig_token \in SigInputs
    /\ nsig_js \in Scripts
    /\ nsig_result = NotCalled
    /\ SelIdle /\ SigIdle /\ RegIdle /\ DlIdle /\ YtIdle /\ UtilIdle
    /\ debug \in BOOLEAN /\ stdout_gone = FALSE
NextNsig == DecryptNsig
SpecNsig == InitNsig /\ [][NextNsig]_vars

\* generate_output_filename over templates, metadata values and format lists
TitleValues ==
    SeqsUpTo({"a", "/", "<", "\n"}, MaxNameLen)
        \cup {<<"T", "e", "s", "t", " ", "V", "i", "d", "e", "o">>, PhId}
IdValues == {<<"t", "1">>, <<"a", "/", "b">>, PhExt}
UploaderValues == {None, Some(<<"T", "C">>), Some(<<"a", ":", "b">>)}
Templates ==
    { PhTitle \o <<".">> \o PhExt,
      PhUploader \o <<" ", "-", " ">> \o PhTitle \o <<".">> \o PhExt,
      PhTitle \o <<" ", "[">> \o PhId \o <<"]", ".">> \o PhExt,
      <<"o", "u", "t">> }
BothCodecsWebm == [vcodec |-> Some("vp9"), acodec |-> Some("opus"), ext |-> "webm", tbr |-> Some(1001)]
InitFilename ==
    /\ formats \in {<<>>, <<BothCodecsMp4>>, <<AudioOnlyM4a>>,
                     <<AudioOnlyM4a, BothCodecsMp4>>, <<BothCodecsMp4, BothCodecsWebm>>}
    /\ best = NotCalled
    /\ metadata \in [id : IdValues, title : TitleValues, uploader : UploaderValues]
    /\ template \in Templates
    /\ filename = None
    /\ sanitize_input = <<>> /\ sanitize_output = None
    /\ SigIdle /\ RegIdle /\ DlIdle /\ YtIdle /\ NsigIdle
    /\ debug = FALSE /\ stdout_gone = FALSE
NextFilename == GenerateOutputFilename
SpecFilename == InitFilename /\ [][NextFilename]_vars


(***************************************************************************)
(* The claims.                                                             *)
(***************************************************************************)
YtRawEntries ==
    IF IsSome(yt_html.player_response) /\ IsSome(Unwrap(yt_html.player_response).streamingData)
    THEN RawEntries(Unwrap(Unwrap(yt_html.player_response).streamingData))
    ELSE <<>>
YtEventsOf(kinds) == {k \in 1..Len(yt_events) : yt_events[k] \in kinds}

\* C1: if any format entry of the streaming payload (adaptive or combined)
\* carries an already-resolved URL, extract never fetches the player script and
\* never invokes signature or throttle-token decryption during that call.
C1_DirectPrecedence ==
    (\E k \in 1..Len(YtRawEntries) : IsSome(YtRawEntries[k].url))
        => YtEventsOf({"fetch_js", "decrypt_signature", "decrypt_nsig"}) = {}

ClaimPriority(ext) == IF ext = "mp4" THEN 1000 ELSE IF ext = "webm" THEN 500 ELSE 0
ClaimBitrateHalves(f) == IF f.tbr = None THEN 0 ELSE f.tbr[1]
\* container_priority + total bitrate, in halves
ClaimScoreHalves(f) == 2 * ClaimPriority(f.ext) + ClaimBitrateHalves(f)
BothCodecIndices == {j \in 1..Len(formats) : formats[j].vcodec # None /\ formats[j].acodec # None}

\* C2: select_best_format never returns a descriptor whose vcodec or
\* acodec is absent, and the descriptor it returns has the maximum value of
\* container_priority(ext) + total bitrate among the descriptors that carry
\* both codec tags.
C2_MaxOfPriorityPlusBitrate ==
    best.tag = "Ok" =>
        /\ best.val \in BothCodecIndices
        /\ \A j \in BothCodecIndices :
              ClaimScoreHalves(formats[j]) <= ClaimScoreHalves(formats[best.val])

TopByHalves ==
    {j \in BothCodecIndices :
        \A k \in BothCodecIndices : ClaimScoreHalves(formats[k]) <= ClaimScoreHalves(formats[j])}
\* C3: when several descriptors that carry both codec tags share the
\* maximum container_priority + bitrate score, select_best_format returns the
\* one that appears first in the format list.
C3_TieFirstSeen ==
    (best.tag = "Ok" /\ Cardinality(TopByHalves) >= 2)
        => (best.val \in TopByHalves /\ \A j \in TopByHalves : best.val <= j)

\* C4: given a target file that already holds N bytes and a remote resource of
\* total size T (N <= T), a transfer to that path sends a Range request
\* starting at byte N, writes exactly T - N additional bytes, and ends with a
\* file of size exactly T, whichever success status (200 or 206) the server
\* answers with.
C4_ResumeContinuity ==
    (dl_pc = "done" /\ dl_result.tag = "Ok" /\ file0 # None) =>
        LET N == Len(file0[1])
        IN  /\ \A k \in 1..Len(requests) : requests[k] = <<N>>
            /\ Len(file[1]) - N = total - N
            /\ Len(file[1]) = total

\* C5: a transfer whose first two responses are HTTP 403 and whose third is 200
\* succeeds after exactly two backoff waits (of 2 and 4 seconds; once the body
\* is being streamed only a stream error can still fail it); a transfer that
\* receives HTTP 403 on every attempt fails after exactly 3 requests with an
\* error whose attempt count is 3.
C5_RetryBound ==
    /\ responses = <<403, 403, 200>> =>
          /\ waits = <<2, 4>>
          /\ Len(requests) = 3
          /\ dl_pc \in {"open", "stream", "done"}
          /\ dl_pc = "done" =>
                (dl_result.tag = "Ok" \/ dl_result.val \in {<<"stream error">>, <<"io error">>})
    /\ (Len(responses) >= 3 /\ \A k \in 1..3 : responses[k] = 403) =>
          /\ Len(responses) = 3
          /\ Len(requests) = 3
          /\ waits = <<2, 4>>
          /\ dl_pc = "done"
          /\ dl_result = [tag |-> "Err",
                          val |-> <<"Failed to download after attempts: HTTP", 3, 403>>]

\* what the claim says one operation does to the characters, when its index is
\* inside the string
ClaimStep(op, before, after) ==
    CASE op.op = "Reverse" ->
            /\ Len(after) = Len(before)
            /\ \A j \in 1..Len(before) : after[j] = before[Len(before) + 1 - j]
      [] op.op = "Splice" /\ op.index < Len(before) ->
            /\ Len(after) = Len(before) - 1
            /\ \A j \in 1..Len(after) : after[j] = IF j <= op.index THEN before[j] ELSE before[j + 1]
      [] op.op = "Swap" /\ op.index < Len(before) ->
            /\ Len(after) = Len(before)
            /\ after[1] = before[op.index + 1]
            /\ after[op.index + 1] = before[1]
            /\ \A j \in 1..Len(before) : j \notin {1, op.index + 1} => after[j] = before[j]
      [] OTHER -> TRUE
C6_FixtureSteps ==
    (signature = <<"a", "b", "c", "d", "e", "f">>
        /\ operations = <<Reverse, Splice(1), Swap(2)>> /\ sig_pc # "idle") =>
        sig_chars = CASE op_done = 0 -> <<"a", "b", "c", "d", "e", "f">>
                      [] op_done = 1 -> <<"f", "e", "d", "c", "b", "a">>
                      [] op_done = 2 -> <<"f", "d", "c", "b", "a">>
                      [] OTHER       -> <<"c", "d", "f", "b", "a">>
C6_EachStep ==
    (op_done' = op_done + 1) =>
        (sig_pc = "loop" /\ ClaimStep(operations[op_done'], sig_chars, sig_chars'))

\* C6: the pattern-based signature transformation applies its operation
\* sequence in order, where Reverse reverses the characters, RemoveAt(i)
\* deletes the character at index i and SwapWithFirst(i) exchanges the
\* characters at positions 0 and i; [Reverse, RemoveAt(1), SwapWithFirst(2)]
\* applied to "abcdef" yields "fedcba", then "fdcba", then "cdfba".
C6_TransformInOrder == [](C6_FixtureSteps) /\ [][C6_EachStep]_vars

\* the fixture has been transformed to the end
C6_Witness ==
    /\ signature = <<"a", "b", "c", "d", "e", "f">>
    /\ operations = <<Reverse, Splice(1), Swap(2)>>
    /\ sig_pc = "done" /\ op_done = 3
    /\ sig_chars = <<"c", "d", "f", "b", "a">>

Outcomes == {"Ok", "Err", "Panic"}
SuitableIndices(url) ==
    {i \in 1..Len(extractors) : Suitable(extractors[i], UrlParse(url).val)}
ExtractCallsOf(calls) == SelectSeq(calls, LAMBDA c : c[1] = "extract")

\* A step of EngineExtract(url, outcome, script).  The first conjunct follows
\* from the second, as do the conditions on reg_url' and reg_result' under
\* which C7 and C8 quantify: they are what such a step leaves behind, and they
\* rule most candidates out before the whole action is evaluated.
EngineExtractStep(url, outcome, script) ==
    /\ js_interpreter' = (IF IsSome(script) THEN script ELSE js_interpreter)
    /\ EngineExtract(url, outcome, script)

C7_Post(url, outcome) ==
    /\ extractors' = extractors
    /\ (UrlParse(url).tag = "Ok" /\ SuitableIndices(url) # {}) =>
          LET first == CHOOSE i \in SuitableIndices(url) : \A j \in SuitableIndices(url) : i <= j
          IN  /\ ExtractCallsOf(reg_calls') = <<<<"extract", first>>>>
              /\ reg_result' = [tag |-> outcome, val |-> "delegated", by |-> first]

\* C7: after any sequence of register_extractor calls, ExtractorEngine::extract
\* calls extract on exactly one extractor, the earliest-registered one whose
\* suitable(url) is true, and returns its result; extract is never called on an
\* extractor registered later, even if that one is also suitable, and the
\* registered list and its order are left unchanged.
C7_FirstSuitableOnly ==
    [][\A url \in Urls :
          reg_url' = Some(url) =>
              \A outcome \in Outcomes :
                  reg_result'.tag \in {outcome, "Err"} =>
                      \A script \in {None} \cup {Some(js) : js \in Scripts} :
                          EngineExtractStep(url, outcome, script) => C7_Post(url, outcome)]_vars

\* an extractor delegated to while a later one is suitable as well
C7_Witness ==
    /\ reg_result.val = "delegated"
    /\ reg_result.by < Len(extractors)
    /\ \E j \in (reg_result.by + 1)..Len(extractors) :
          Suitable(extractors[j], UrlParse(reg_url[1]).val)

C8_Post(url) ==
    /\ UrlParse(url).tag = "Err" =>
          /\ reg_calls' = <<>>
          /\ reg_result'.tag = "Err" /\ reg_result'.val = "InvalidUrl"
    /\ (UrlParse(url).tag = "Ok" /\ SuitableIndices(url) = {}) =>
          /\ ExtractCallsOf(reg_calls') = <<>>
          /\ reg_result'.tag = "Err" /\ reg_result'.val = "No suitable extractor found"

\* C8: ExtractorEngine::extract fails with an invalid-URL error for an
\* unparseable URL without calling suitable or extract on any registered
\* extractor, and fails with a no-extractor-found error when the URL parses but
\* no registered extractor is suitable (including when the registry is empty).
C8_EngineErrors ==
    [][\A url \in Urls :
          reg_url' = Some(url) =>
              \A outcome \in Outcomes :
                  reg_result'.tag \in {outcome, "Err"} =>
                      \A script \in {None} \cup {Some(js) : js \in Scripts} :
                          EngineExtractStep(url, outcome, script) => C8_Post(url)]_vars

\* an unparseable URL was refused by an engine that has extractors
C8_Witness ==
    /\ reg_result.val = "InvalidUrl" /\ reg_calls = <<>>
    /\ Len(extractors) > 0

\* an entry from which a descriptor can be built: it has a url, or a cipher
\* that has one
Buildable(entry) ==
    entry.url # None \/ (entry.cipher # None /\ entry.cipher[1].url # None)

\* C9: every VideoMetadata that YouTubeExtractor::extract returns successfully
\* has a non-empty formats list, on the direct path and on the cipher-protected
\* path; a payload from which no descriptor can be built makes the call fail
\* (with an error, or with the panic of the page sample when no player script
\* is found) instead of returning metadata with empty formats.
C9_FormatsNeverEmpty ==
    /\ yt_result.tag = "Ok" => Len(yt_result.val.formats) > 0
    /\ (yt_pc = "done" /\ \A k \in 1..Len(YtRawEntries) : ~Buildable(YtRawEntries[k]))
          => yt_result.tag \in {"Err", "Panic"}

\* a successful extraction on the cipher-protected path that skipped an entry
C9_Witness ==
    /\ yt_result.tag = "Ok"
    /\ YtEventsOf({"fetch_js"}) # {}
    /\ Len(yt_result.val.formats) < Len(YtRawEntries)

HasFullCipher(entry) ==
    /\ entry.url = None /\ entry.cipher # None
    /\ entry.cipher[1].url # None /\ entry.cipher[1].s # None /\ entry.cipher[1].n # None
\* base url, then sp = decrypted signature, then n = decrypted throttle token
ClaimCipherUrl(entry) ==
    LET c == entry.cipher[1]
        sp == IF c.sp = None THEN "signature" ELSE c.sp[1]
    IN  [ base |-> c.url[1],
          tail |-> << <<sp, decrypt_signature(js_interpreter, c.s[1], js_interpreter[1]).val>>,
                      <<"n", decrypt_nsig(js_interpreter, c.n[1], js_interpreter[1]).val>> >>,
          reserialized |-> FALSE ]

\* C10: for a cipher-protected format whose CipherParams contain url, s and n,
\* the URL of the descriptor returned to the caller consists of the base url
\* followed by the sp key (default "signature") with the decrypted signature
\* and by n with the decrypted throttle token, so the returned URL carries the
\* n parameter.
C10_ReturnedUrlCarriesN ==
    (yt_pc = "done" /\ yt_result.tag = "Ok" /\ YtEventsOf({"fetch_js"}) # {}) =>
        \A k \in 1..Len(YtRawEntries) :
            HasFullCipher(YtRawEntries[k]) =>
                \E j \in 1..Len(yt_result.val.formats) :
                    yt_result.val.formats[j].url = ClaimCipherUrl(YtRawEntries[k])

NeedsSignature(entry) ==
    /\ entry.url = None /\ entry.cipher # None
    /\ entry.cipher[1].url # None /\ entry.cipher[1].s # None
\* running the script's signature function on s fails
SignatureRunFails(entry) ==
    JsCall(js_interpreter[1], find_signature_function_name(js_interpreter[1]),
           entry.cipher[1].s[1]).tag = "Err"
RawSignaturePair(entry) ==
    << IF entry.cipher[1].sp = None THEN "signature" ELSE entry.cipher[1].sp[1],
       entry.cipher[1].s[1] >>

\* decrypt_signature does not come back with a signature for the entry's s
\* token: it returns an error, or it unwinds
SignatureDecryptionFails(entry) ==
    decrypt_signature(js_interpreter, entry.cipher[1].s[1], yt_js[1]).tag # "Ok"

\* C11: when decrypting a format's s token fails, the format is not dropped
\* and the extraction call is not aborted: the descriptor is still returned
\* with the raw (un-decrypted) s value inserted under the sp key, and the
\* remaining formats are still processed.
C11_RawSignatureOnFailure ==
    (yt_pc = "done" /\ YtEventsOf({"decrypt_signature"}) # {}) =>
        \A k \in 1..Len(YtRawEntries) :
            (NeedsSignature(YtRawEntries[k]) /\ SignatureDecryptionFails(YtRawEntries[k])) =>
                /\ yt_result.tag = "Ok"
                /\ \E j \in 1..Len(yt_result.val.formats) :
                      LET u == yt_result.val.formats[j].url
                      IN  /\ Len(u.tail) >= 1
                          /\ u.tail[1] = RawSignaturePair(YtRawEntries[k])

\* C12: within one extraction call the watch page and the player script are
\* each requested at most once: a non-2xx status or a transport failure on
\* either fetch fails the call immediately and no further request is issued
\* (so once the script has been requested the call is over, whatever the
\* answer was).
C12_EachFetchAtMostOnce ==
    /\ Cardinality(YtEventsOf({"fetch_page"})) <= 1
    /\ Cardinality(YtEventsOf({"fetch_js"})) <= 1
    /\ YtEventsOf({"fetch_js"}) # {} => yt_pc = "done"
    /\ (yt_pc \in {"js", "done"} /\ yt_html = NoPage /\ yt_video_id # None)
          => (yt_pc = "done" /\ yt_result.tag = "Err")

\* the call has ended with the error of the body stream
StreamErrorEnded ==
    /\ dl_pc = "done" /\ dl_result.tag = "Err"
    /\ attempt >= 1
    /\ dl_result.val = <<"stream error">>
\* the bytes the call has passed to write_all
BytesWritten ==
    LET start == IF IsSome(resume_from) THEN Unwrap(resume_from) ELSE 0
        sent == ServerBody(resume_from, responses[attempt])
    IN  SubSeq(sent, 1, downloaded - start)
\* after a stream error: the requests of the call are those sent before the
\* body (the last of them answered with success), and the file holds what it
\* held when the call began followed by the bytes written so far
C13_AfterStreamError ==
    StreamErrorEnded =>
        /\ Len(requests) = attempt /\ Len(responses) = attempt
        /\ responses[attempt] \in {200, 206}
        /\ \A k \in 1..(attempt - 1) : responses[k] \notin {200, 206}
        /\ file # None
        /\ LET kept == IF file0 = None THEN <<>> ELSE Unwrap(file0)
           IN  Unwrap(file) = kept \o BytesWritten
\* the step that meets the error sends nothing and waits for nothing
C13_ErrorStep ==
    (dl_pc = "stream" /\ dl_pc' = "done" /\ dl_result'.tag = "Err") =>
        (requests' = requests /\ waits' = waits)
\* the next call to the same path starts from the size of the file
C13_NextCall ==
    (StreamErrorEnded /\ dl_pc' = "send") =>
        (file' = file /\ resume_from' = <<Len(Unwrap(file))>>)
C13_RangeHeader == \A k \in 1..Len(requests) : requests[k] = resume_from

\* C13: an error while streaming the response body into the file ends the
\* transfer with that error: no further request is sent and no backoff is
\* taken, the bytes written so far remain in the target file, and a later
\* download call to the same path resumes with a Range request starting at
\* that file's size.
C13_StreamErrorFatal ==
    /\ [](C13_AfterStreamError /\ C13_RangeHeader)
    /\ [][C13_ErrorStep /\ C13_NextCall]_vars

\* C14: when no descriptor in the metadata carries both a video and an audio
\* codec tag, Downloader::download fails with the no-suitable-format error
\* without sending any HTTP request and without creating or modifying the
\* target file (the file changes during the call only if an earlier call
\* left a write in flight, which then lands by itself).
C14_NoSuitableFormat ==
    (dl_pc # "idle" /\ BothCodecIndices = {}) =>
        /\ dl_pc = "done"
        /\ dl_result.tag = "Err"
        /\ dl_result.val = "No suitable format found"
        /\ requests = <<>> /\ responses = <<>> /\ waits = <<>>
        /\ pending = None
        /\ stale0 = <<>> => file = file0

\* download has refused a list that holds an audio-only descriptor, next to
\* a file that exists
C14_Witness ==
    /\ dl_pc = "done" /\ dl_result.tag = "Err"
    /\ Len(formats) > 0 /\ BothCodecIndices = {}
    /\ stale0 = <<>>
    /\ file # None /\ Len(file[1]) > 0

ClaimUnsafe == {"/", "\\", "<", ">", ":", "\"", "|", "?", "*", "\n", "\t"}

\* C15: generate_output_filename maps every unsafe filename character
\* (/ \ < > : " | ? * and control characters) of every metadata value it
\* substitutes into the template (title, uploader, id) to '-' or '_' before
\* substitution, so no unsafe character coming from metadata appears in the
\* generated filename (the templates hold none themselves); for template
\* "%(title)s.%(ext)s", title "Test Video" and a best format with ext mp4 the
\* result is "Test Video.mp4".
C15_FilenameHasNoUnsafeChar ==
    filename # None =>
        /\ \A j \in 1..Len(filename[1]) : filename[1][j] \notin ClaimUnsafe
        /\ (/\ template = <<"%", "(", "t", "i", "t", "l", "e", ")", "s", ".",
                            "%", "(", "e", "x", "t", ")", "s">>
            /\ metadata.title = <<"T", "e", "s", "t", " ", "V", "i", "d", "e", "o">>
            /\ formats = <<BothCodecsMp4>>)
              => filename[1] = <<"T", "e", "s", "t", " ", "V", "i", "d", "e", "o",
                                 ".", "m", "p", "4">>

\* C16: sanitize_filename replaces each '/' and '\' by '-', each of
\* < > : " | ? * and each control character by '_', and leaves every other
\* character unchanged; hence for every input the output has the same number
\* of characters, contains none of the unsafe characters, and sanitizing the
\* output again returns it unchanged.
C16_SanitizeFilename ==
    sanitize_output # None =>
        LET in == sanitize_input
            out == sanitize_output[1]
        IN  /\ Len(out) = Len(in)
            /\ \A j \in 1..Len(in) :
                  /\ in[j] \in {"/", "\\"} => out[j] = "-"
                  /\ in[j] \in {"<", ">", ":", "\"", "|", "?", "*", "\n", "\t"} => out[j] = "_"
                  /\ in[j] \notin ClaimUnsafe => out[j] = in[j]
                  /\ out[j] \notin ClaimUnsafe
            /\ sanitize_filename(out) = out

\* a backslash and a control character have been sanitized
C16_Witness ==
    /\ sanitize_input = <<"\\", "\n">>
    /\ sanitize_output = << <<"-", "_">> >>

\* the identifier the claim gives for each URL of the model
ClaimVideoId(url) ==
    CASE url \in {"https://www.youtube.com/watch?v=dQw4w9WgXcQ",
                  "https://www.youtube.com/watch?t=123&v=dQw4w9WgXcQ",
                  "https://m.youtube.com/watch?v=dQw4w9WgXcQ",
                  "https://youtube.com/watch?v=dQw4w9WgXcQ",
                  "https://notyoutube.com/watch?v=dQw4w9WgXcQ",
                  "https://youtu.be/dQw4w9WgXcQ"} -> <<"dQw4w9WgXcQ">>
      [] url = "https://youtu.be/"                -> <<"">>
      [] OTHER                                    -> <<>>
C17_Post(url) ==
    /\ yt_video_id' = ClaimVideoId(url)
    /\ IF ClaimVideoId(url) = <<>>
       THEN /\ yt_pc' = "done"
            /\ yt_result' = [tag |-> "Err", val |-> "Could not extract video ID from URL"]
            /\ yt_events' = <<>>
       ELSE yt_pc' = "page" /\ yt_result'.tag = "NotCalled"

\* C17: extract_video_id returns the first path segment for host youtu.be and
\* the value of query parameter v (ignoring any other query parameters) for
\* hosts containing youtube.com; when neither form yields an identifier,
\* YouTubeExtractor::extract fails with the missing-identifier error before
\* any HTTP request is issued.
C17_VideoId ==
    [][\A url \in Urls : ExtractIdentify(url) => C17_Post(url)]_vars

\* extract has failed for want of an identifier, with nothing requested
C17_Witness ==
    /\ yt_pc = "done" /\ yt_video_id = <<>>
    /\ yt_result.tag = "Err" /\ yt_events = <<>>

ClaimYouTubeUrls ==
    {"https://www.youtube.com/watch?v=dQw4w9WgXcQ",
     "https://www.youtube.com/watch?t=123&v=dQw4w9WgXcQ",
     "https://www.youtube.com/watch",
     "https://m.youtube.com/watch?v=dQw4w9WgXcQ",
     "https://youtube.com/watch?v=dQw4w9WgXcQ",
     "https://youtu.be/dQw4w9WgXcQ",
     "https://youtu.be/"}

\* C18: YouTubeExtractor::suitable returns true for every URL whose host is
\* youtube.com, a subdomain of youtube.com, or youtu.be, and false for every
\* URL with any other host or with no host: the engine delegates to a
\* registered YouTubeExtractor it asks exactly for those URLs.
C18_SuitableHosts ==
    reg_url # <<>> =>
        \A i \in 1..Len(extractors) :
            (extractors[i] = "YouTube" /\ \E k \in 1..Len(reg_calls) : reg_calls[k] = <<"suitable", i>>)
                => ((reg_result.val = "delegated" /\ reg_result.by = i)
                        <=> reg_url[1] \in ClaimYouTubeUrls)

\* C19: every stream descriptor contained in a successfully returned
\* VideoMetadata has at least one of vcodec and acodec present; a raw format
\* entry that would yield neither codec tag never appears in the result.
C19_SomeCodecPresent ==
    yt_result.tag = "Ok" =>
        \A j \in 1..Len(yt_result.val.formats) :
            \/ yt_result.val.formats[j].vcodec # <<>>
            \/ yt_result.val.formats[j].acodec # <<>>

\* C20: within one successfully returned VideoMetadata no two stream
\* descriptors have the same format_id, for every payload (including entries
\* whose itag is missing or repeated across the adaptive and combined lists).
C20_FormatIdUnique ==
    yt_result.tag = "Ok" =>
        \A i, j \in 1..Len(yt_result.val.formats) :
            i # j => yt_result.val.formats[i].format_id # yt_result.val.formats[j].format_id

\* the attempts that failed in a way the loop retries: no response at all, or 403
RetriedAttempts == {k \in 1..Len(responses) : responses[k] \in {NetErr, 403} /\ k < 3}

\* C21: for every sequence of network-level failures and HTTP statuses,
\* download_format sends at most 3 requests and then terminates in success or
\* failure; network failures and 403 responses consume the same attempt
\* counter, the wait taken after failed attempt k (k = 1, 2) is 2^k seconds,
\* and no wait is taken after the final attempt.
C21_AttemptCeiling ==
    /\ Len(requests) <= 3 /\ Len(responses) = Len(requests)
    /\ attempt = Len(requests)
    /\ Len(waits) = Cardinality(RetriedAttempts) /\ Len(waits) <= 2
    /\ \A k \in 1..Len(waits) : waits[k] = 2 ^ k /\ responses[k] \in {NetErr, 403}
    /\ Len(responses) = 3 => dl_pc \in {"open", "stream", "done"}
    /\ (Len(responses) = 3 /\ responses[3] \in {NetErr, 403}) =>
          (dl_pc = "done" /\ dl_result.tag = "Err")

\* a network failure, then a 403, then a third failure that ends the call
\* with the two waits taken
C21_Witness ==
    /\ responses = <<NetErr, 403, NetErr>>
    /\ waits = <<2, 4>>
    /\ dl_pc = "done" /\ dl_result.tag = "Err"

FatalStatuses == {404, 416, 500}

\* C22: a response with a non-success status other than 403 (for example 404,
\* 416 or 500) fails the transfer on the attempt where it is received, with no
\* retry and no backoff, and the error names that attempt count and the
\* status.
C22_OtherStatusFatal ==
    \A k \in 1..Len(responses) :
        responses[k] \in FatalStatuses =>
            /\ k = Len(responses) /\ Len(requests) = k
            /\ Len(waits) = k - 1
            /\ dl_pc = "done"
            /\ dl_result.tag = "Err"
            /\ dl_result.val = <<"Failed to download after attempts: HTTP", k, responses[k]>>

\* a 500 on the second attempt has ended the call, after the one wait that
\* followed the first attempt
C22_Witness ==
    /\ responses = <<403, 500>>
    /\ waits = <<2>>
    /\ dl_pc = "done"
    /\ dl_result = [tag |-> "Err", val |-> <<"Failed to download after attempts: HTTP", 2, 500>>]

\* no request of the call was answered with a success status
NoBodyReceived == \A k \in 1..Len(responses) : responses[k] \notin {200, 206}

\* C23: a transfer to a path that already holds N bytes never truncates or
\* rewrites them: at every point during and after the transfer, whether it
\* succeeds or fails, the first N bytes of the file are the original ones; and
\* a transfer that fails in the request/response phase (retries exhausted or
\* non-retryable status) leaves the file, or its absence, exactly as it was.
C23_ExistingBytesKept ==
    /\ (dl_pc # "idle" /\ file0 # <<>>) =>
          /\ file # <<>>
          /\ Len(file[1]) >= Len(file0[1])
          /\ \A j \in 1..Len(file0[1]) : file[1][j] = file0[1][j]
    /\ (dl_pc = "done" /\ responses # <<>> /\ NoBodyReceived) => file = file0

\* a lookup step of the pattern-based fallback finds nothing in the script
ClaimDefaultOperations ==
    << [op |-> "Reverse", index |-> 0], [op |-> "Splice", index |-> 1],
       [op |-> "Swap", index |-> 39] >>

\* the call was aborted by the sample of a URL that tracing::debug! is given
\* after the URL was built
UrlSamplePanicked ==
    /\ debug
    /\ yt_result = [tag |-> "Panic", val |-> "byte index 100 is not a char boundary"]

\* C24: in the pattern-based fallback, whenever the signature function name,
\* the helper object's name, the helper object's literal definition, or any
\* method in it cannot be found in the script, the operation sequence used is
\* exactly [Reverse, RemoveAt(1), SwapWithFirst(39)] and decrypt_signature
\* returns a result instead of an error.  The fallback is reached when the
\* interpreter has returned an error for the signature function; the patterns
\* of the code find no method in any script, so a lookup fails for every script.
\* A call that reached the fallback does not end with an error (it ends Ok, or
\* the sample of a URL built afterwards aborts it), and every descriptor it
\* returns for such a token carries the token transformed by that sequence
\* ("abc" becomes "ca"), not the raw one.
C24_DefaultOperations ==
    (/\ yt_pc = "done" /\ YtEventsOf({"decrypt_signature"}) # {}
     /\ \E k \in 1..Len(YtRawEntries) :
           NeedsSignature(YtRawEntries[k]) /\ SignatureRunFails(YtRawEntries[k])) =>
        /\ yt_result.tag = "Ok" \/ UrlSamplePanicked
        /\ yt_result.tag = "Ok" =>
              \A k \in 1..Len(YtRawEntries) :
                  (/\ NeedsSignature(YtRawEntries[k])
                   /\ SignatureRunFails(YtRawEntries[k])) =>
                      \E j \in 1..Len(yt_result.val.formats) :
                          LET u == yt_result.val.formats[j].url
                          IN  /\ u.base \in {YtRawEntries[k].cipher[1].url[1], BaseLongEncoded}
                              /\ Len(u.tail) >= 1
                              /\ u.tail[1][1] = RawSignaturePair(YtRawEntries[k])[1]
                              /\ u.tail[1][2] = ApplyOps(ClaimDefaultOperations,
                                                         YtRawEntries[k].cipher[1].s[1])
                              /\ YtRawEntries[k].cipher[1].s[1] = <<"a", "b", "c">>
                                    => u.tail[1][2] = <<"c", "a">>

\* a token was transformed by the default sequence although the signature
\* function and the helper object of the script were found: no method was
\* found
C24_Witness ==
    /\ yt_pc = "done" /\ yt_result.tag = "Ok"
    /\ js_interpreter # <<>>
    /\ js_interpreter[1].sig_name # <<>> /\ js_interpreter[1].obj_name # <<>>
    /\ \E k \in 1..Len(YtRawEntries) :
          NeedsSignature(YtRawEntries[k]) /\ SignatureRunFails(YtRawEntries[k])
    /\ \E j \in 1..Len(yt_result.val.formats) :
          /\ Len(yt_result.val.formats[j].url.tail) >= 1
          /\ yt_result.val.formats[j].url.tail[1] = <<"signature", <<"c", "a">>>>

\* the functions the patterns of decrypt_nsig name in nsig_js whose execution
\* by the interpreter of the decrypter succeeds, by position in pattern order
NsigRunnable ==
    IF nsig_interp = <<>> THEN {}
    ELSE {k \in 1..Len(nsig_js.nsig_names) :
             nsig_interp[1].loads /\ ~nsig_interp[1].fns[nsig_js.nsig_names[k]].throws}
NsigFirstRunnable == CHOOSE k \in NsigRunnable : \A m \in NsigRunnable : k <= m
ClaimHeuristic(token) == ApplyOps(ClaimDefaultOperations, token)

\* C25: decrypt_nsig never returns an error.  Its result is the value of the
\* first matched throttle function, in pattern order, whose execution by the
\* interpreter succeeds; it is exactly the original token when no interpreter
\* is initialised, no pattern matches, or every execution fails.  In the
\* passthrough cases the heuristic operation sequence has not been applied.
C25_NsigNeverFails ==
    nsig_result # NotCalled =>
        /\ nsig_result.tag = "Ok"
        /\ NsigRunnable = {} => nsig_result.val = nsig_token
        /\ NsigRunnable # {} =>
              nsig_result.val =
                  ApplyOps(nsig_interp[1].fns[nsig_js.nsig_names[NsigFirstRunnable]].ops,
                           nsig_token)
        /\ (NsigRunnable = {} /\ ClaimHeuristic(nsig_token) # nsig_token) =>
              nsig_result.val # ClaimHeuristic(nsig_token)

\* C26: after a signature decryption against a player script (the call derived
\* an operation sequence from the script because running its signature
\* function failed), the derived operation sequence is stored in the
\* transform cache under that script's fingerprint.
C26_OperationsCached ==
    (/\ yt_pc = "done" /\ js_interpreter # <<>>
     /\ \E k \in 1..Len(YtRawEntries) :
           NeedsSignature(YtRawEntries[k]) /\ SignatureRunFails(YtRawEntries[k])
     /\ YtEventsOf({"decrypt_signature"}) # {}) =>
        /\ js_interpreter[1].id \in DOMAIN transform_cache
        /\ transform_cache[js_interpreter[1].id]
              = extract_signature_operations(js_interpreter[1])

\* the script fetched in the current call as an interpreter holds it: the
\* text without its NUL characters
ClaimLoaded == <<[yt_js[1] EXCEPT !.nul = FALSE]>>
\* the script fetched in the current call runs function `name`
ClaimRuns(name) == yt_js[1].loads /\ ~yt_js[1].fns[name].throws
\* what that function returns for `token` when it is the first thing run in a
\* runtime that has loaded the script
ClaimFirstRun(name, token) == ApplyOps(yt_js[1].fns[name].ops, token)

\* C27: the result of an extraction call does not depend on earlier calls made
\* on the same YouTubeExtractor: once the player script of the current call is
\* fetched, the interpreter holds exactly that script (as loaded: without
\* NUL characters), whatever it held when the call began; and whenever a token
\* is decrypted by script execution, the value in the returned URL is what
\* the function of the current script returns in a runtime in which nothing
\* has run before, for the signature and for the throttle token alike.
C27_NoDependenceOnEarlierCalls ==
    (yt_pc = "done" /\ yt_js # <<>>) =>
        /\ js_interpreter = ClaimLoaded
        /\ yt_result.tag = "Ok" =>
              \A k \in 1..Len(YtRawEntries) :
                  LET e == YtRawEntries[k]
                  IN  (/\ NeedsSignature(e)
                       /\ yt_js[1].sig_name # <<>> /\ ClaimRuns(yt_js[1].sig_name[1])) =>
                          \E j \in 1..Len(yt_result.val.formats) :
                              LET u == yt_result.val.formats[j].url
                              IN  /\ u.base \in {e.cipher[1].url[1], BaseLongEncoded}
                                  /\ Len(u.tail) >= 1
                                  /\ u.tail[1] = << RawSignaturePair(e)[1],
                                                    ClaimFirstRun(yt_js[1].sig_name[1],
                                                                  e.cipher[1].s[1]) >>
                                  /\ (/\ Len(u.tail) = 2
                                      /\ yt_js[1].nsig_names # <<>>
                                      /\ ClaimRuns(yt_js[1].nsig_names[1])) =>
                                         u.tail[2] = << "n",
                                                       ClaimFirstRun(yt_js[1].nsig_names[1],
                                                                     e.cipher[1].n[1]) >>

\* a call whose signature and throttle token were decrypted by running the
\* script fetched in this call, on an extractor that held another script from
\* an earlier call
C27_Witness ==
    /\ yt_pc = "done" /\ yt_js # <<>>
    /\ js_interpreter0 # <<>> /\ js_interpreter0 # ClaimLoaded
    /\ yt_result.tag = "Ok"
    /\ yt_js[1].sig_name # <<>> /\ ClaimRuns(yt_js[1].sig_name[1])
    /\ \E j \in 1..Len(yt_result.val.formats) :
          /\ Len(yt_result.val.formats[j].url.tail) = 2
          /\ yt_result.val.formats[j].url.tail[1] = <<"signature", <<"b", "a", "c">>>>
          /\ yt_result.val.formats[j].url.tail[2] = <<"n", <<"y", "x">>>>

ClaimDotExt == <<".", "%", "(", "e", "x", "t", ")", "s">>
ClaimEndsWith(text, suffix) ==
    /\ Len(text) >= Len(suffix)
    /\ SubSeq(text, Len(text) - Len(suffix) + 1, Len(text)) = suffix
ClaimExtOf(f) ==
    CASE f.ext = "mp4"  -> <<"m", "p", "4">>
      [] f.ext = "webm" -> <<"w", "e", "b", "m">>
      [] f.ext = "m4a"  -> <<"m", "4", "a">>
      [] OTHER          -> <<>>

\* C28: for every metadata with at least one descriptor carrying both codec
\* tags, the extension generate_output_filename substitutes for %(ext)s is the
\* ext of the descriptor Downloader::select_best_format picks: a template
\* that ends in ".%(ext)s" gives a filename that ends in "." followed by the
\* ext of the format that is downloaded.
C28_ExtOfDownloadedFormat ==
    (/\ filename # None
     /\ \E i \in 1..Len(formats) : formats[i].vcodec # None /\ formats[i].acodec # None
     /\ ClaimEndsWith(template, ClaimDotExt)) =>
        /\ select_best_format(formats).tag = "Ok"
        /\ ClaimEndsWith(filename[1],
              <<".">> \o ClaimExtOf(formats[select_best_format(formats).val]))

ClaimStartsWith(text, prefix) ==
    /\ Len(text) >= Len(prefix)
    /\ SubSeq(text, 1, Len(prefix)) = prefix
ClaimDrop(text, n) == SubSeq(text, n + 1, Len(text))
ClaimPhTitle == <<"%", "(", "t", "i", "t", "l", "e", ")", "s">>
ClaimPhId == <<"%", "(", "i", "d", ")", "s">>
ClaimPhUploader == <<"%", "(", "u", "p", "l", "o", "a", "d", "e", "r", ")", "s">>
ClaimPhExt == <<"%", "(", "e", "x", "t", ")", "s">>
\* one pass over the template: each placeholder occurrence of the template is
\* replaced by its value, and the value is not looked at again
RECURSIVE ClaimSubstituteOnce(_, _, _, _, _)
ClaimSubstituteOnce(tpl, title, id, uploader, ext) ==
    IF tpl = <<>> THEN <<>>
    ELSE IF ClaimStartsWith(tpl, ClaimPhTitle)
         THEN title \o ClaimSubstituteOnce(ClaimDrop(tpl, 9), title, id, uploader, ext)
    ELSE IF ClaimStartsWith(tpl, ClaimPhId)
         THEN id \o ClaimSubstituteOnce(ClaimDrop(tpl, 6), title, id, uploader, ext)
    ELSE IF ClaimStartsWith(tpl, ClaimPhUploader)
         THEN uploader \o ClaimSubstituteOnce(ClaimDrop(tpl, 12), title, id, uploader, ext)
    ELSE IF ClaimStartsWith(tpl, ClaimPhExt)
         THEN ext \o ClaimSubstituteOnce(ClaimDrop(tpl, 7), title, id, uploader, ext)
    ELSE <<Head(tpl)>> \o ClaimSubstituteOnce(Tail(tpl), title, id, uploader, ext)

\* C29: a value substituted into the filename template is never itself
\* re-interpreted as a placeholder: a title, id or uploader that contains
\* %(id)s, %(uploader)s or %(ext)s appears literally in the generated filename,
\* so the filename is the template with each of its placeholder occurrences
\* replaced exactly once (stated for at most one format, where the extension
\* is that format's, or mp4 without a format).
C29_SubstitutedOnce ==
    (filename # None /\ Len(formats) <= 1) =>
        filename[1] =
            ClaimSubstituteOnce(template, sanitize_filename(metadata.title), metadata.id,
                IF metadata.uploader = <<>> THEN <<"U", "n", "k", "n", "o", "w", "n">>
                ELSE metadata.uploader[1],
                IF formats = <<>> THEN <<"m", "p", "4">> ELSE ClaimExtOf(formats[1]))

\* the length left after a sequence of operations on a token of n characters:
\* n minus the RemoveAt operations whose index was in range when applied
RECURSIVE ClaimLenAfter(_, _)
ClaimLenAfter(ops, n) ==
    IF ops = <<>> THEN n
    ELSE ClaimLenAfter(Tail(ops),
                       IF Head(ops).op = "Splice" /\ Head(ops).index < n THEN n - 1 ELSE n)
C30_State ==
    sig_pc # "idle" =>
        /\ op_done <= Len(operations)
        /\ sig_pc = "done" => op_done = Len(operations)
        /\ sig_pc = "loop" => (ENABLED SigApplyOp \/ ENABLED SigReturn)
        /\ Len(sig_chars) = ClaimLenAfter(SubSeq(operations, 1, op_done), Len(signature))
        /\ \A j \in 1..Len(sig_chars) : \E m \in 1..Len(signature) : sig_chars[j] = signature[m]
C30_Step ==
    (op_done' = op_done + 1) =>
        LET op == operations[op_done']
        IN  (op.op \in {"Splice", "Swap"} /\ op.index >= Len(sig_chars))
                => sig_chars' = sig_chars

\* C30: for every token and every operation sequence, applying the sequence
\* never fails (the loop always has its next step and ends after the last
\* operation); RemoveAt(i) and SwapWithFirst(i) with i greater than or equal
\* to the current length leave the token unchanged; the length of the result
\* is the input length minus the number of RemoveAt operations whose index
\* was in range when applied; every character of the result occurs in the
\* input.
C30_ApplyNeverFails == [](C30_State) /\ [][C30_Step]_vars

\* a RemoveAt at the length of the token left it alone, the next one removed
\* a character
C30_Witness ==
    /\ signature = <<"a", "b">>
    /\ operations = <<Splice(2), Splice(1)>>
    /\ sig_pc = "done" /\ op_done = 2
    /\ sig_chars = <<"a">>

====
